---- MODULE Spec2Model ----
(***************************************************************************)
(* A model of cosmic-initiative: the star router and the layered traversal *)
(* engine of cosmic-hyperspace, the framed lane of cosmic-hyperlane-tcp,   *)
(* the SmartLocator, the tables of cosmic-registry-postgres and the lane   *)
(* choice of the star of starlane.                                         *)
(*                                                                         *)
(* SpecRouter    : a mesh of stars, each with its message pump (HyperStar), *)
(*                 the lanes between them and the tasks the pump spawns.   *)
(* SpecLayers    : the LayerTraversalEngine of one star.                   *)
(* SpecHandshake : FrameMuxer::handshake at both ends of a connection.     *)
(* SpecFrame     : Frame::to_stream against Frame::from_stream.            *)
(* SpecLane      : serve() and the mux loop of an accepted connection;     *)
(*                 SpecLaneLive adds the scheduling of the mux task.       *)
(* SpecRegistry  : PostgresRegistry::register and ::delete.                *)
(* SpecLocator   : concurrent callers of SmartLocator::locate.             *)
(* SpecStatus    : PostgresRegistry::set_status.                           *)
(* SpecProperties: PostgresRegistry::set_properties.                       *)
(* SpecSequence  : concurrent callers of PostgresRegistry::sequence.       *)
(* SpecAccess    : PostgresRegistry::grant, ::access and ::chown.          *)
(* SpecOwnership : PostgresRegistry::chown and ::remove_access.            *)
(* SpecSearch    : the lane a star of starlane sends on after a search.    *)
(* SpecRetry     : Star::message, its reply trackers and delivery tasks;   *)
(*                 SpecRetryLive adds the scheduling of star and tasks.    *)
(* SpecArrival   : the hops of one lane, each handled by a spawned task.   *)
(* SpecPump      : the pump of HyperStar::start and its bounded call queue.*)
(* SpecMux       : the mux loop when a select cancels a frame being read.  *)
(* SpecMesh      : star discovery of starlane over a mesh of stars;        *)
(*                 SpecMeshLive adds the scheduling of the stars.          *)
(***************************************************************************)
EXTENDS Integers, Sequences, FiniteSets, TLC

VARIABLES
    adjacents,   \* HyperStarSkel.adjacents of every star: the stars it has a lane to
    kinds,       \* HyperStarSkel.kind of every star
    registry,    \* the registry: point -> owning star, or Absent
    calls,       \* star_rx of every star: the queue of HyperStarCall
    tasks,       \* the tasks spawned by the pumps and not yet run
    lane,        \* hyperway_endpoint.rx of every star: the waves arriving from the lanes
    pump,        \* the pump task of every star: "running" or "panicked"
    log,         \* per star, what its handlers did, in order
    emitted,     \* number of waves the environment has produced so far
    injections,  \* SpecLayers: the TraversalInjections waiting for the engine
    traversals,  \* SpecLayers: the traversals in flight (spawned visits, next-layer calls)
    shells,      \* SpecLayers: ParticleStates.shell, the points that have a ShellState
    ltrace,      \* SpecLayers: what the engine did, in order
    version,     \* SpecHandshake: VERSION of the build running at each end of a connection
    honest,      \* SpecHandshake: whether the far end runs FrameMuxer::handshake at all
    hs,          \* SpecHandshake: where each end is in FrameMuxer::handshake, and its result
    wire,        \* SpecHandshake: per end, the frames written to it and not yet read
    status_ch,   \* SpecHandshake: per end, what was sent on status_tx
    elapsed,     \* SpecHandshake: per end, the seconds spent waiting in timeouts
    outbox,      \* SpecFrame: the payloads the writer frames with Frame::to_stream, in order
    wr,          \* SpecFrame: where the writer is
    stream,      \* SpecFrame: what is written on the stream and not yet read
    rd,          \* SpecFrame: where Frame::from_stream is, with its size and its data
    frames,      \* SpecFrame: the frames from_stream has returned, in order
    mux,         \* SpecLane: where FrameMuxer::mux is, and the wave it holds
    net_in,      \* SpecLane: the waves the peer wrote on the stream, not yet read
    net_out,     \* SpecLane: the waves the mux loop wrote on the stream
    in_ch,       \* SpecLane: the inbound channel (in_tx -> in_rx), a bounded queue
    out_ch,      \* SpecLane: the outbound channel (out_tx -> out_rx)
    endpoint,    \* SpecLane: who holds the HyperwayEndpoint that handshake returned
    terminate,   \* SpecLane: whether the terminate signal has been sent to the mux loop
    serve,       \* SpecLane: where serve() of HyperlaneTcpServer::run is, and what it saw
    produced,    \* SpecLane: how many waves the peer and the mounted side have produced
    particles,   \* SpecRegistry, SpecLocator: the rows of the table `particles`, in insertion order
    last,        \* SpecRegistry: the last call of the registry, its result and the table before it
    ops,         \* SpecRegistry: number of registry calls made so far
    callers,     \* SpecLocator: where each caller of SmartLocator::locate is
    requests,    \* SpecLocator: the Provision requests sent and not yet answered
    events,      \* SpecLocator: registry reads, Provision requests and returns, in order
    properties,  \* SpecProperties: the rows of the table `properties`
    access_grants, \* SpecAccess: the rows of the table `access_grants`
    sessions,    \* SpecSequence: the transaction of each caller of sequence
    star_paths,  \* SpecSearch: per lane of the star, its cached hops to the star searched for
    lane_order,  \* SpecSearch: the order in which the map `lanes` is iterated
    frame_hold,  \* SpecSearch: the frames held until a lane to their star is known
    nearest,     \* SpecSearch: the fewest hops of the last search committed, if any
    sends,       \* SpecSearch: the frames sent, each with its lane and the hops cached for it
    star_sequence, \* SpecRetry: info.sequence of the star, the last id it handed out
    message_reply_trackers, \* SpecRetry: the reply table of the star, keyed by message id
    deliveries,  \* SpecRetry: the tasks Star::message spawned, one per tracked message
    command_rx,  \* SpecRetry: the StarCommands sent to the star and not yet handled
    updates,     \* SpecRetry: per waiter, the MessageUpdates sent on its broadcast channel
    outgoing,    \* SpecRetry: the ids of the StarMessages given to send_frame
    timeouts,    \* SpecRetry: how many waits of the delivery tasks have timed out so far
    replies,     \* SpecRetry: how many replies have arrived at the star so far
    gravity_rx,  \* SpecPump: the waves sent to gravity_tx and not yet relayed to the pump
    call_rx,     \* SpecPump: the bounded queue call_tx -> call_rx of HyperStarCalls
    pump_at,     \* SpecPump: where the pump of HyperStar::start is, and the call it handles
    handled,     \* SpecPump: the calls the pump has handled to the end, in order
    waves,       \* SpecPump: how many waves have been sent to gravity_tx so far
    star_lanes,  \* SpecMesh: per star, the remote stars of its lanes, in the order `lanes` is iterated
    lane_paths,  \* SpecMesh: LaneMeta.star_paths of every lane of every star
    transactions, \* SpecMesh: per star, its StarSearchTransactions by id
    sequences,   \* SpecMesh: per star, the last id info.sequence handed out
    in_flight,   \* SpecMesh: the frames on their way, per directed lane
    star_commands, \* SpecMesh: per star, the StarCommands waiting in command_rx
    search_results, \* SpecMesh: per star, the SearchResults handed to its callers
    searches     \* SpecMesh: how many searches callers have begun

vars == <<adjacents, kinds, registry, calls, tasks, lane, pump, log, emitted,
          injections, traversals, shells, ltrace,
          version, honest, hs, wire, status_ch, elapsed,
          outbox, wr, stream, rd, frames,
          mux, net_in, net_out, in_ch, out_ch, endpoint, terminate, serve, produced,
          particles, last, ops, callers, requests, events,
          properties, access_grants, sessions,
          star_paths, lane_order, frame_hold, nearest, sends,
          star_sequence, message_reply_trackers, deliveries, command_rx, updates,
          outgoing, timeouts, replies,
          gravity_rx, call_rx, pump_at, handled, waves,
          star_lanes, lane_paths, transactions, sequences, in_flight, star_commands,
          search_results, searches>>

routerVars == <<adjacents, kinds, registry, calls, tasks, lane, pump, log, emitted>>
layerVars == <<injections, traversals, shells, ltrace>>
starVars == <<routerVars, layerVars>>
handshakeVars == <<version, honest, hs, wire, status_ch, elapsed>>
(* the subsystems outside the star: lane transport and registry store *)
frameVars == <<outbox, wr, stream, rd, frames>>
laneVars == <<mux, net_in, net_out, in_ch, out_ch, endpoint, terminate, serve, produced>>
storeVars == <<particles, last, ops>>
locatorVars == <<callers, requests, events>>
tableVars == <<properties, access_grants, sessions>>
searchVars == <<star_paths, lane_order, frame_hold, nearest, sends>>
replyVars == <<star_sequence, message_reply_trackers, deliveries, command_rx, updates,
               outgoing, timeouts, replies>>
pumpVars == <<gravity_rx, call_rx, pump_at, handled, waves>>
meshVars == <<star_lanes, lane_paths, transactions, sequences, in_flight, star_commands,
              search_results, searches>>
moreVars == <<replyVars, pumpVars, meshVars>>
extraVars == <<tableVars, searchVars, moreVars>>
outerVars == <<handshakeVars, frameVars, laneVars, storeVars, locatorVars, extraVars>>

---------------------------------------------------------------------------
(* Bounds of the model and constants of the program *)

MaxEmit == 1
MaxHops == 255

Stars == {"A", "B", "C", "D"}
Particles == {"p1", "p2"}
Ghost == "ghost"
Source == "src"
GLOBAL_EXEC == "GLOBAL::executor"
Absent == "absent"
NoPoint == "-"

Layers == <<"Gravity", "Field", "Shell", "Core">>

---------------------------------------------------------------------------
(* Points, surfaces, recipients and waves *)

Surface(p, l) == [point |-> p, layer |-> l]

NoSurface == Surface(NoPoint, "Core")

to_surface(p) == Surface(p, "Core")

with_layer(s, l) == [s EXCEPT !.layer = l]

Single(s) == [tag |-> "Single", ports |-> {s}]

Multi(ps) == [tag |-> "Multi", ports |-> ps]

ToStars == [tag |-> "Stars", ports |-> {}]

Wave(id, k, m, f, t, h, hist, b) ==
    [id |-> id, kind |-> k, method |-> m, from |-> f, to |-> t,
     hops |-> h, history |-> hist, body |-> b]

is_single(w) == w.to.tag = "Single"

to_single(w) == CHOOSE s \in w.to.ports : TRUE

is_directed(w) == w.kind \in {"Ping", "Ripple", "Signal"}

injector(s) == Surface(s \o ":injector", "Gravity")

gravity(s) == Surface(s, "Gravity")

is_forwarder(k) == k = "Forwarder"

forwarders(s) == {a \in adjacents[s] : is_forwarder(kinds[a])}

Perms(S) == {f \in [1..Cardinality(S) -> S] : \A i, j \in 1..Cardinality(S) : f[i] = f[j] => i = j}

---------------------------------------------------------------------------
(* Envelopes: a Transport is a Signal whose body is a wave, a Hop a Signal
   whose body is a Transport *)

wrap_in_transport(w, f, t) ==
    Wave(w.id, "Signal", "Transport", f, Single(t), 0, {}, <<w>>)

wrap_in_hop(t, f, to) ==
    Wave(t.id, "Signal", "Hop", f, Single(to), 0, {}, <<t>>)

is_hop(w) == w.kind = "Signal" /\ w.method = "Hop" /\ Len(w.body) = 1

inc_hops(t) == [t EXCEPT !.hops = t.hops + 1]

add_to_history(w, p) ==
    IF w.kind = "Ripple" THEN [w EXCEPT !.history = w.history \cup {p}] ELSE w

Event(ev, w, sf, fg, out) ==
    [ev |-> ev, wave |-> w, surface |-> sf, from_gravity |-> fg, out |-> out]

Call(op, w, sf, fg) == [op |-> op, wave |-> w, surface |-> sf, from_gravity |-> fg]

Task(s, op, w, sf, fg) ==
    [star |-> s, op |-> op, wave |-> w, surface |-> sf, from_gravity |-> fg]

---------------------------------------------------------------------------
(* What a handler does, as one record: the events it logs, the tasks it
   spawns, the hop it hands to the hyperway transmitter, the calls it sends to
   its own star_tx, and whether it panicked *)

Effect(evs, sp, snd, enq, pn) ==
    [events |-> evs, spawn |-> sp, send |-> snd, enqueue |-> enq, panic |-> pn]

NoEffect == Effect(<<>>, {}, <<>>, <<>>, FALSE)

Logged(ev, w) == Effect(<<Event(ev, w, NoSurface, FALSE, <<>>)>>, {}, <<>>, <<>>, FALSE)

(* the effect eff of a handler that first tracked wave w as ev *)
Tracked(ev, w, eff) ==
    [eff EXCEPT !.events = <<Event(ev, w, NoSurface, FALSE, <<>>)>> \o @]

---------------------------------------------------------------------------
(* HyperStar::to_hyperway: wrap the transport into a hop to exactly one star *)

to_hyperway(s, t) ==
    LET dest == to_single(t).point
    IN  IF s = dest
          THEN Effect(<<Event("HopSelf", t, NoSurface, FALSE, <<>>)>>, {},
                      <<wrap_in_hop(t, gravity(s), to_surface(s))>>, <<>>, FALSE)
        ELSE IF dest \in adjacents[s]
          THEN Effect(<<Event("HopAdjacent", t, NoSurface, FALSE, <<>>)>>, {},
                      <<wrap_in_hop(t, gravity(s), to_single(t))>>, <<>>, FALSE)
        ELSE IF Cardinality(forwarders(s)) = 1
          THEN Effect(<<Event("HopForwarder", t, NoSurface, FALSE, <<>>)>>, {},
                      <<wrap_in_hop(t, gravity(s),
                                    to_surface(CHOOSE f \in forwarders(s) : TRUE))>>,
                      <<>>, FALSE)
        ELSE IF forwarders(s) = {}
          THEN Logged("ErrNoForwarders", t)
        ELSE Effect(<<Event("PanicUnimplemented", t, NoSurface, FALSE, <<>>)>>, {},
                    <<>>, <<>>, TRUE)

(* forward as a star that forwards whatever its kind *)
forward_any_kind(s, t) == to_hyperway(s, t)

(* HyperStar::forward *)
forward(s, t) ==
    IF is_forwarder(kinds[s])
      THEN to_hyperway(s, t)
      ELSE Logged("ErrNotForwarder", t)

(* from_hyperway without the bound on the hops *)
from_hyperway_unbounded(s, w) ==
    IF ~is_hop(w)
      THEN Tracked("Receive", w, Logged("ErrNotHop", w))
      ELSE LET transport == inc_hops(w.body[1])
           IN  IF to_single(transport).point = s
                 THEN Tracked("Receive", w,
                         Effect(<<Event("SendToStartLayerTraversal", transport,
                                        injector(s), TRUE, <<>>)>>,
                                {Task(s, "inject", transport, injector(s), TRUE)},
                                <<>>, <<>>, FALSE))
               ELSE Tracked("Receive", w, forward(s, transport))

(* HyperStar::from_hyperway *)
from_hyperway(s, w) ==
    IF ~is_hop(w)
      THEN Tracked("Receive", w, Logged("ErrNotHop", w))
      ELSE LET transport == inc_hops(w.body[1])
           IN  IF transport.hops > MaxHops
                 THEN Tracked("Receive", w, Logged("HopsExceeded", transport))
               ELSE IF to_single(transport).point = s
                 THEN Tracked("Receive", w,
                         Effect(<<Event("SendToStartLayerTraversal", transport,
                                        injector(s), TRUE, <<>>)>>,
                                {Task(s, "inject", transport, injector(s), TRUE)},
                                <<>>, <<>>, FALSE))
               ELSE Tracked("Receive", w, forward(s, transport))

(* HyperStar::to_gravity *)
to_gravity(s, w0) ==
    LET w == add_to_history(w0, s)
    IN  IF is_directed(w) /\ is_single(w) /\ to_single(w).point = GLOBAL_EXEC
          THEN Effect(<<Event("GlobalHandler", w, NoSurface, FALSE, <<>>)>>,
                      {Task(s, "global", w, NoSurface, FALSE)}, <<>>, <<>>, FALSE)
          ELSE Effect(<<>>, {}, <<>>, <<Call("Shard", w, NoSurface, FALSE)>>, FALSE)

---------------------------------------------------------------------------
(* Sharding *)

(* shard_by_location with Stars treated as Watchers are *)
shard_by_location_no_stars(recipients, adjacent) ==
    CASE recipients.tag = "Single" -> [ok |-> FALSE, map |-> <<>>]
      [] recipients.tag = "Multi" -> [ok |-> FALSE, map |-> <<>>]
      [] recipients.tag = "Watchers" -> [ok |-> TRUE, map |-> <<>>]
      [] recipients.tag = "Stars" -> [ok |-> TRUE, map |-> <<>>]

shard_by_location(recipients, adjacent) ==
    CASE recipients.tag = "Single" -> [ok |-> FALSE, map |-> <<>>]
      [] recipients.tag = "Multi" -> [ok |-> FALSE, map |-> <<>>]
      [] recipients.tag = "Watchers" -> [ok |-> TRUE, map |-> <<>>]
      [] recipients.tag = "Stars" -> [ok |-> TRUE, map |-> [star \in adjacent |-> ToStars]]

(* shard_ripple_by_location that does not look at the history *)
shard_ripple_by_location_unfiltered(ripple, adjacent) ==
    LET r == shard_by_location(ripple.to, adjacent)
    IN  IF ~r.ok
          THEN r
          ELSE [ok |-> TRUE,
                map |-> [star \in DOMAIN r.map |-> [ripple EXCEPT !.to = r.map[star]]]]

shard_ripple_by_location(ripple, adjacent) ==
    LET r == shard_by_location(ripple.to, adjacent)
    IN  IF ~r.ok
          THEN r
          ELSE [ok |-> TRUE,
                map |-> [star \in {x \in DOMAIN r.map : x \notin ripple.history} |->
                            [ripple EXCEPT !.to = r.map[star]]]]

(* SmartLocator::locate for a point whose record, when present, has its star set *)
locate(p) ==
    IF p \in DOMAIN registry /\ registry[p] # Absent
      THEN [ok |-> TRUE, star |-> registry[p]]
      ELSE [ok |-> FALSE, star |-> NoPoint]

(* transport_to addressing the Gravity layer of the star *)
transport_to_gravity(s, w, star) ==
    [wrap_in_transport(w, gravity(s), with_layer(to_surface(star), "Gravity"))
        EXCEPT !.from = to_surface(s)]

(* the transport HyperStar::shard builds for a wave that lives on another star *)
transport_to(s, w, star) ==
    [wrap_in_transport(w, gravity(s), with_layer(to_surface(star), "Core"))
        EXCEPT !.from = to_surface(s)]

(* one turn of the loop over the sharded map: the call it sends, and its event *)
shard_one(s, ripple, star, w0) ==
    LET w == [w0 EXCEPT !.history = w0.history \cup {s}]
    IN  IF star = s
          THEN [call |-> Call("LayerTraversalInjection", w, gravity(s), TRUE),
                event |-> Event("ShardInject", ripple, gravity(s), TRUE, <<w>>)]
          ELSE [call |-> Call("ToHyperway", transport_to(s, w, star), NoSurface, FALSE),
                event |-> Event("ShardTransport", ripple, NoSurface, FALSE,
                                <<transport_to(s, w, star)>>)]

(* the task HyperStar::shard spawns; order is the order in which the loop
   walks the map, a HashMap *)
shard(s, w, order) ==
    IF w.kind = "Ripple"
      THEN LET r == shard_ripple_by_location(w, adjacents[s])
           IN  IF ~r.ok
                 THEN Logged("ErrShard", w)
                 ELSE Effect([i \in 1..Len(order) |->
                                 shard_one(s, w, order[i], r.map[order[i]]).event],
                             {}, <<>>,
                             [i \in 1..Len(order) |->
                                 shard_one(s, w, order[i], r.map[order[i]]).call],
                             FALSE)
      ELSE LET to == to_single(w)
               location == locate(to.point)
           IN  IF ~location.ok
                 THEN Logged("ErrShard", w)
               ELSE IF location.star = s
                 THEN Effect(<<Event("ShardInject", w, gravity(s), TRUE, <<w>>)>>, {}, <<>>,
                             <<Call("LayerTraversalInjection", w, gravity(s), TRUE)>>, FALSE)
               ELSE Effect(<<Event("ShardTransport", w, NoSurface, FALSE,
                                   <<transport_to(s, w, location.star)>>)>>, {}, <<>>,
                           <<Call("ToHyperway", transport_to(s, w, location.star),
                                  NoSurface, FALSE)>>, FALSE)

shard_orders(s, w) ==
    IF w.kind = "Ripple" /\ shard_ripple_by_location(w, adjacents[s]).ok
      THEN Perms(DOMAIN shard_ripple_by_location(w, adjacents[s]).map)
      ELSE {<<>>}

---------------------------------------------------------------------------
(* The layered traversal engine of star Self *)

Self == "A"

NoLayer == "None"

NoDir == "None"

Ord(l) == CHOOSE i \in 1..Len(Layers) : Layers[i] = l

is_global(p) == p = GLOBAL_EXEC

(* WaveTraversalPlan::has_layer: the layers of a kind's plan *)
plan_has_layer(l) == l \in {"Field", "Shell", "Core"}

(* LayerTraversalEngine::has_layer *)
has_layer(l) == l = "Shell" \/ l = "Field"

(* TraversalDirection::new(from, to): from one layer toward another *)
direction(from, to) ==
    IF from = to THEN [ok |-> FALSE, dir |-> NoDir]
    ELSE IF Ord(from) < Ord(to) THEN [ok |-> TRUE, dir |-> "Core"]
    ELSE [ok |-> TRUE, dir |-> "Fabric"]

Injection(sf, w, fg, d) == [surface |-> sf, wave |-> w, from_gravity |-> fg, dir |-> d]

Traversal(w, l, d, dest, to, p) ==
    [wave |-> w, layer |-> l, dir |-> d, dest |-> dest, to |-> to, point |-> p]

NoWave == Wave(0, "None", "None", NoSurface, Single(NoSurface), 0, {}, <<>>)

NoTraversal == Traversal(NoWave, NoLayer, NoDir, NoLayer, NoSurface, NoPoint)

NoInjection == Injection(NoSurface, NoWave, FALSE, NoDir)

(* Traversal::next: the next layer of the plan in the traversal's direction *)
next(t) ==
    IF t.dir = "Fabric"
      THEN IF Ord(t.layer) = 1 THEN NoLayer ELSE Layers[Ord(t.layer) - 1]
      ELSE IF Ord(t.layer) = Len(Layers) THEN NoLayer ELSE Layers[Ord(t.layer) + 1]

LEvent(ev, inj, t) == [ev |-> ev, inj |-> inj, trav |-> t]

(* what a step of the engine produces: events, and traversals handed to a
   spawned layer visit *)
Out(ok, evs, vs) == [ok |-> ok, events |-> evs, visits |-> vs]

(* LayerTraversalEngine::exit *)
exit(t) ==
    IF t.dir = "Fabric"
      THEN Out(TRUE, <<LEvent("ExitUp", NoInjection, t)>>, {})
      ELSE Out(TRUE, <<LEvent("ExitDown", NoInjection, t)>>, {})

(* LayerTraversalEngine::visit_layer: the visit itself runs in a spawned task *)
visit_layer(t) ==
    IF t.layer = "Field"
      THEN Out(TRUE, <<>>, {t})
    ELSE IF t.layer = "Shell"
      THEN IF t.point \in shells
             THEN Out(TRUE, <<>>, {t})
             ELSE Out(FALSE, <<LEvent("ErrNoShell", NoInjection, t)>>, {})
    ELSE exit(t)

(* choose_dir asking for a global destination before it asks for gravity *)
choose_dir_global_first(inj, to) ==
    IF inj.dir # NoDir
      THEN [ok |-> TRUE, dir |-> inj.dir, dest |-> NoLayer]
    ELSE IF is_global(to.point)
      THEN [ok |-> TRUE, dir |-> "Fabric", dest |-> NoLayer]
    ELSE IF inj.from_gravity
      THEN [ok |-> TRUE, dir |-> "Core", dest |-> to.layer]
    ELSE IF to.point = inj.wave.from.point
      THEN IF to.layer # "Gravity" /\ ~plan_has_layer(to.layer)
             THEN [ok |-> FALSE, dir |-> NoDir, dest |-> to.layer]
             ELSE [ok |-> TRUE,
                   dir |-> IF direction(inj.surface.layer, to.layer).ok
                             THEN direction(inj.surface.layer, to.layer).dir
                             ELSE "Fabric",
                   dest |-> to.layer]
    ELSE [ok |-> TRUE, dir |-> "Fabric", dest |-> NoLayer]

(* the direction and destination layer start_layer_traversal gives to one
   recipient, or the error it returns *)
choose_dir(inj, to) ==
    IF inj.dir # NoDir
      THEN [ok |-> TRUE, dir |-> inj.dir, dest |-> NoLayer]
    ELSE IF inj.from_gravity
      THEN [ok |-> TRUE, dir |-> "Core", dest |-> to.layer]
    ELSE IF is_global(to.point)
      THEN [ok |-> TRUE, dir |-> "Fabric", dest |-> NoLayer]
    ELSE IF to.point = inj.wave.from.point
      THEN IF to.layer # "Gravity" /\ ~plan_has_layer(to.layer)
             THEN [ok |-> FALSE, dir |-> NoDir, dest |-> to.layer]
             ELSE [ok |-> TRUE,
                   dir |-> IF direction(inj.surface.layer, to.layer).ok
                             THEN direction(inj.surface.layer, to.layer).dir
                             ELSE "Fabric",
                   dest |-> to.layer]
    ELSE [ok |-> TRUE, dir |-> "Fabric", dest |-> NoLayer]

(* the recipients start_layer_traversal walks, or the error of the lookup *)
tos_of(star, w) ==
    IF w.kind # "Ripple" \/ w.to.tag = "Single"
      THEN [ok |-> TRUE, tos |-> w.to.ports]
    ELSE IF w.to.tag = "Multi"
      THEN IF \E port \in w.to.ports :
                 port.point \notin DOMAIN registry \/ registry[port.point] = Absent
             THEN [ok |-> FALSE, tos |-> {}]
             ELSE [ok |-> TRUE, tos |-> {port \in w.to.ports : registry[port.point] = star}]
    ELSE IF w.to.tag = "Stars"
      THEN [ok |-> TRUE,
            tos |-> IF star = w.from.point
                      THEN {with_layer(to_surface(star), "Gravity")}
                      ELSE {with_layer(to_surface(star), "Core")}]
    ELSE [ok |-> TRUE, tos |-> {}]

(* one turn of the loop of start_layer_traversal *)
start_one(inj, to) ==
    IF to.point \notin DOMAIN registry \/ registry[to.point] = Absent
      THEN Out(FALSE, <<LEvent("ErrNotFound", inj, NoTraversal)>>, {})
      ELSE LET d == choose_dir(inj, to)
               point == IF d.dir = "Core" THEN to.point ELSE inj.wave.from.point
               t0 == Traversal(inj.wave, inj.surface.layer, d.dir, d.dest, to, point)
               started == LEvent("Traversal", inj, t0)
           IN  IF ~d.ok
                 THEN Out(FALSE, <<LEvent("ErrNotInPlan", inj, NoTraversal)>>, {})
               ELSE IF ~has_layer(t0.layer)
                 THEN IF next(t0) = NoLayer
                        THEN Out(TRUE, <<started>> \o exit(t0).events, {})
                        ELSE LET v == visit_layer([t0 EXCEPT !.layer = next(t0)])
                             IN  Out(v.ok, <<started>> \o v.events, v.visits)
               ELSE LET v == visit_layer(t0)
                    IN  Out(v.ok, <<started>> \o v.events, v.visits)

RECURSIVE start_loop(_, _, _)
start_loop(inj, order, i) ==
    IF i > Len(order)
      THEN Out(TRUE, <<>>, {})
      ELSE LET one == start_one(inj, order[i])
           IN  IF ~one.ok
                 THEN one
                 ELSE LET rest == start_loop(inj, order, i + 1)
                      IN  Out(rest.ok, one.events \o rest.events, one.visits \cup rest.visits)

(* LayerTraversalEngine::start_layer_traversal; order is the order of the
   recipients *)
start_layer_traversal(inj, order) ==
    IF ~tos_of(Self, inj.wave).ok
      THEN Out(FALSE, <<LEvent("ErrNotLocated", inj, NoTraversal)>>, {})
      ELSE start_loop(inj, order, 1)

tos_orders(w) == IF tos_of(Self, w).ok THEN Perms(tos_of(Self, w).tos) ELSE {<<>>}

(* DirectedWave::reflection: Ping and Ripple can be reflected, a Signal cannot *)
reflectable(w) == w.kind \in {"Ping", "Ripple"}

(* Reflection::make: the reflected wave carrying the error, back to the source *)
reflect(w) ==
    Wave(w.id, IF w.kind = "Ping" THEN "Pong" ELSE "Echo", "Err",
         to_surface(Self), Single(w.from), 0, {}, <<>>)

(* inject that sends the reflection in as if it came from gravity *)
inject_reflection_from_gravity(inj, order, order2) ==
    LET first == start_layer_traversal(inj, order)
    IN  IF ~is_directed(inj.wave)
          THEN Out(TRUE, first.events, first.visits)
        ELSE IF first.ok
          THEN first
        ELSE IF reflectable(inj.wave)
          THEN LET injection == Injection(inj.surface, reflect(inj.wave), TRUE, NoDir)
                   second == start_layer_traversal(injection, order2)
               IN  Out(TRUE, first.events \o <<LEvent("Reflect", injection, NoTraversal)>>
                                 \o second.events,
                       first.visits \cup second.visits)
        ELSE Out(TRUE, first.events \o <<LEvent("ErrLogged", inj, NoTraversal)>>,
                 first.visits)

(* LayerTraversalEngine::inject *)
inject(inj, order, order2) ==
    LET first == start_layer_traversal(inj, order)
    IN  IF ~is_directed(inj.wave)
          THEN Out(TRUE, first.events, first.visits)
        ELSE IF first.ok
          THEN first
        ELSE IF reflectable(inj.wave)
          THEN LET injection == Injection(inj.surface, reflect(inj.wave), FALSE, NoDir)
                   second == start_layer_traversal(injection, order2)
               IN  Out(TRUE, first.events \o <<LEvent("Reflect", injection, NoTraversal)>>
                                 \o second.events,
                       first.visits \cup second.visits)
        ELSE Out(TRUE, first.events \o <<LEvent("ErrLogged", inj, NoTraversal)>>,
                 first.visits)

(* the result of a visit_layer whose error, if any, is only logged *)
logged(o, t) ==
    IF o.ok THEN o ELSE Out(TRUE, <<LEvent("NextErrLogged", NoInjection, t)>>, {})

(* LayerTraversalEngine::traverse_to_next_layer *)
traverse_to_next_layer(t) ==
    IF t.dest # NoLayer /\ t.layer = t.dest
      THEN logged(visit_layer(t), t)
    ELSE IF next(t) = NoLayer
      THEN IF t.dir = "Fabric"
             THEN Out(TRUE, <<LEvent("ExitUp", NoInjection, t)>>, {})
             ELSE Out(TRUE, <<LEvent("WarnCore", NoInjection, t)>>, {})
    ELSE logged(visit_layer([t EXCEPT !.layer = next(t)]), t)

---------------------------------------------------------------------------
(* The meshes and inputs the router is run on *)

Hub == {{"A", "B"}, {"A", "C"}, {"A", "D"}}

Ring == {{"A", "B"}, {"B", "C"}, {"C", "A"}, {"C", "D"}}

Line == {{"A", "B"}, {"B", "C"}, {"C", "D"}}

AdjOf(E) == [s \in Stars |-> {t \in Stars \ {s} : {s, t} \in E}]

AllForward == [s \in Stars |-> "Forwarder"]

ForwardBC == [s \in Stars |-> IF s \in {"B", "C"} THEN "Forwarder" ELSE "Leaf"]

ForwardA == [s \in Stars |-> IF s = "A" THEN "Forwarder" ELSE "Leaf"]

(* the meshes the router is run on: the lanes, and the kind of every star *)
Scenarios ==
    { <<Hub, ForwardBC>>, <<Hub, ForwardA>>, <<Ring, AllForward>>,
      <<Line, ForwardBC>>, <<Line, ForwardA>> }

(* every star registers itself and assigns itself as its own star
   (HyperStarSkel::new); p1 lives on A, p2 on D, Ghost has no record *)
InitRegistry ==
    [p \in Stars \cup Particles \cup {Ghost} |->
        IF p \in Stars THEN p
        ELSE IF p = "p1" THEN "A"
        ELSE IF p = "p2" THEN "D"
        ELSE Absent]

HopSamples == {0, MaxHops - 1, MaxHops}

(* the waves a particle on star s may send out to gravity *)
GravityWaves(s, id) ==
    LET from == Surface(Source, "Core")
    IN  {Wave(id, "Ping", "Cmd", from, Single(to_surface(p)), 0, {}, <<>>) :
            p \in Particles \cup {Ghost, GLOBAL_EXEC}}
        \cup {Wave(id, "Signal", "Cmd", from, Single(to_surface("p2")), 0, {}, <<>>)}
        \cup {Wave(id, "Ripple", "Search", to_surface(s), ToStars, 0, h, <<>>) :
                h \in {{}, {CHOOSE t \in adjacents[s] : TRUE}}}
        \cup {Wave(id, "Ripple", "Cmd", from, Multi({to_surface(p) : p \in Particles}),
                   0, {}, <<>>)}

(* the waves a peer may put on a lane to star s: a hop carrying a transport
   that has travelled h hops so far, or a wave that is no hop at all *)
LaneWaves(s, id) ==
    LET inner == Wave(id, "Ping", "Cmd", Surface(Source, "Core"),
                      Single(to_surface("p1")), 0, {}, <<>>)
        f == CHOOSE t \in adjacents[s] : TRUE
    IN  {wrap_in_hop([wrap_in_transport(inner, to_surface(f), to_surface(d))
                         EXCEPT !.hops = h],
                     gravity(f), to_surface(s)) :
            d \in Stars, h \in HopSamples}
        \cup {inner}

---------------------------------------------------------------------------
(* SpecRouter: state and actions *)

InitHandshakeIdle ==
    /\ version = <<>>
    /\ honest = TRUE
    /\ hs = <<>>
    /\ wire = <<>>
    /\ status_ch = <<>>
    /\ elapsed = <<>>

InitFrameIdle ==
    /\ outbox = <<>>
    /\ wr = <<>>
    /\ stream = <<>>
    /\ rd = <<>>
    /\ frames = <<>>

InitLaneIdle ==
    /\ mux = <<>>
    /\ net_in = <<>>
    /\ net_out = <<>>
    /\ in_ch = <<>>
    /\ out_ch = <<>>
    /\ endpoint = ""
    /\ terminate = FALSE
    /\ serve = <<>>
    /\ produced = <<>>

InitStoreIdle ==
    /\ particles = <<>>
    /\ last = <<>>
    /\ ops = 0

InitLocatorIdle ==
    /\ callers = <<>>
    /\ requests = {}
    /\ events = <<>>

InitTablesIdle ==
    /\ properties = <<>>
    /\ access_grants = <<>>
    /\ sessions = <<>>

InitSearchIdle ==
    /\ star_paths = <<>>
    /\ lane_order = <<>>
    /\ frame_hold = 0
    /\ nearest = 0
    /\ sends = <<>>

InitReplyIdle ==
    /\ star_sequence = 0
    /\ message_reply_trackers = <<>>
    /\ deliveries = <<>>
    /\ command_rx = <<>>
    /\ updates = <<>>
    /\ outgoing = {}
    /\ timeouts = 0
    /\ replies = 0

InitPumpIdle ==
    /\ gravity_rx = <<>>
    /\ call_rx = <<>>
    /\ pump_at = <<>>
    /\ handled = <<>>
    /\ waves = 0

InitMeshIdle ==
    /\ star_lanes = <<>>
    /\ lane_paths = <<>>
    /\ transactions = <<>>
    /\ sequences = <<>>
    /\ in_flight = <<>>
    /\ star_commands = <<>>
    /\ search_results = <<>>
    /\ searches = 0

InitMoreIdle ==
    /\ InitReplyIdle
    /\ InitPumpIdle
    /\ InitMeshIdle

InitExtraIdle ==
    /\ InitTablesIdle
    /\ InitSearchIdle
    /\ InitMoreIdle

InitOuterIdle ==
    /\ InitHandshakeIdle
    /\ InitFrameIdle
    /\ InitLaneIdle
    /\ InitStoreIdle
    /\ InitLocatorIdle
    /\ InitExtraIdle

InitEngineIdle ==
    /\ injections = {}
    /\ traversals = {}
    /\ shells = {}
    /\ ltrace = <<>>

InitLayersIdle ==
    /\ InitOuterIdle
    /\ InitEngineIdle

InitRouter ==
    /\ \E sc \in Scenarios : adjacents = AdjOf(sc[1]) /\ kinds = sc[2]
    /\ registry = InitRegistry
    /\ calls = [s \in Stars |-> <<>>]
    /\ tasks = {}
    /\ lane = [s \in Stars |-> <<>>]
    /\ pump = [s \in Stars |-> "running"]
    /\ log = [s \in Stars |-> <<>>]
    /\ emitted = 0
    /\ InitLayersIdle

(* the state after star s ran a handler with effect eff; rest is what is left
   of its queue and done the task that ran, if one did *)
Apply(s, rest, done, eff) ==
    /\ calls' = [calls EXCEPT ![s] = rest \o eff.enqueue]
    /\ tasks' = (tasks \ done) \cup eff.spawn
    /\ lane' = IF eff.send = <<>>
                 THEN lane
                 ELSE [lane EXCEPT ![to_single(eff.send[1]).point] = Append(@, eff.send[1])]
    /\ pump' = IF eff.panic THEN [pump EXCEPT ![s] = "panicked"] ELSE pump
    /\ log' = [log EXCEPT ![s] = @ \o eff.events]
    /\ UNCHANGED <<adjacents, kinds, registry, emitted, layerVars, outerVars>>

Ready(s, op) ==
    /\ pump[s] = "running"
    /\ calls[s] # <<>>
    /\ Head(calls[s]).op = op

(* the mesh is at rest: every queue and lane is empty and no task is left; the
   environment produces its next wave when the mesh is at rest *)
Quiet ==
    /\ tasks = {}
    /\ \A s \in Stars : lane[s] = <<>> /\ (calls[s] = <<>> \/ pump[s] = "panicked")

(* a particle on star s sends a wave out: gravity_tx, relayed to the pump as
   HyperStarCall::ToGravity *)
EnvGravity(s) ==
    /\ emitted < MaxEmit
    /\ Quiet
    /\ \E w \in GravityWaves(s, emitted + 1) :
          calls' = [calls EXCEPT ![s] = Append(@, Call("ToGravity", w, NoSurface, FALSE))]
    /\ emitted' = emitted + 1
    /\ UNCHANGED <<adjacents, kinds, registry, tasks, lane, pump, log, layerVars, outerVars>>

(* a peer star puts a wave on a lane to star s *)
EnvLane(s) ==
    /\ emitted < MaxEmit
    /\ Quiet
    /\ \E w \in LaneWaves(s, emitted + 1) : lane' = [lane EXCEPT ![s] = Append(@, w)]
    /\ emitted' = emitted + 1
    /\ UNCHANGED <<adjacents, kinds, registry, calls, tasks, pump, log, layerVars, outerVars>>

(* the relay task of HyperStar::new: hyperway_endpoint.rx -> FromHyperway *)
Relay(s) ==
    /\ lane[s] # <<>>
    /\ lane' = [lane EXCEPT ![s] = Tail(@)]
    /\ calls' = [calls EXCEPT ![s] = Append(@, Call("FromHyperway", Head(lane[s]), NoSurface, FALSE))]
    /\ UNCHANGED <<adjacents, kinds, registry, tasks, pump, log, emitted, layerVars, outerVars>>

(* HyperStar::start, one arm of the match per action *)
FromHyperway(s) ==
    /\ Ready(s, "FromHyperway")
    /\ Apply(s, Tail(calls[s]), {}, from_hyperway(s, Head(calls[s]).wave))

ToGravity(s) ==
    /\ Ready(s, "ToGravity")
    /\ Apply(s, Tail(calls[s]), {}, to_gravity(s, Head(calls[s]).wave))

ToHyperway(s) ==
    /\ Ready(s, "ToHyperway")
    /\ Apply(s, Tail(calls[s]), {}, to_hyperway(s, Head(calls[s]).wave))

Shard(s) ==
    /\ Ready(s, "Shard")
    /\ Apply(s, Tail(calls[s]), {},
             Effect(<<>>, {Task(s, "shard", Head(calls[s]).wave, NoSurface, FALSE)},
                    <<>>, <<>>, FALSE))

LayerTraversalInjection(s) ==
    /\ Ready(s, "LayerTraversalInjection")
    /\ LET c == Head(calls[s])
       IN  Apply(s, Tail(calls[s]), {},
                 Effect(<<>>, {Task(s, "inject", c.wave, c.surface, c.from_gravity)},
                        <<>>, <<>>, FALSE))

(* the tasks the pump spawned *)
RunShard(t) ==
    /\ t.op = "shard"
    /\ \E order \in shard_orders(t.star, t.wave) :
          Apply(t.star, calls[t.star], {t},
                Tracked("Sharding", t.wave, shard(t.star, t.wave, order)))

(* the spawned LayerTraversalEngine::inject, the layers in between left to
   SpecLayers: a wave sent toward Fabric exits up to gravity_tx, a transport
   sent toward Core exits down to the drivers, where the star driver gets it *)
engine_exits(t) ==
    LET inj == Injection(t.surface, t.wave, t.from_gravity, NoDir)
        dirs == {choose_dir(inj, to).dir : to \in tos_of(t.star, t.wave).tos}
    IN  Effect(<<Event("Inject", t.wave, t.surface, t.from_gravity, <<>>)>>,
               IF "Core" \in dirs /\ t.wave.method = "Transport"
                 THEN {Task(t.star, "core", t.wave, t.surface, t.from_gravity)}
                 ELSE {},
               <<>>,
               IF "Fabric" \in dirs
                 THEN <<Call("ToGravity", t.wave, NoSurface, FALSE)>>
                 ELSE <<>>,
               FALSE)

RunInject(t) ==
    /\ t.op = "inject"
    /\ Apply(t.star, calls[t.star], {t}, engine_exits(t))

(* the star driver at the Core: it unwraps the transport and injects the wave
   inside at the star's Gravity surface, from_gravity set *)
star_core(s, transport) ==
    Effect(<<Event("Unwrap", transport, NoSurface, FALSE, transport.body)>>,
           {Task(s, "inject", transport.body[1], gravity(s), TRUE)},
           <<>>, <<>>, FALSE)

StarCore(t) ==
    /\ t.op = "core"
    /\ Apply(t.star, calls[t.star], {t}, star_core(t.star, t.wave))

(* the spawned global handler *)
RunGlobal(t) ==
    /\ t.op = "global"
    /\ Apply(t.star, calls[t.star], {t}, NoEffect)

NextRouter ==
    \/ \E s \in Stars : EnvGravity(s)
    \/ \E s \in Stars : EnvLane(s)
    \/ \E s \in Stars : Relay(s)
    \/ \E s \in Stars : FromHyperway(s)
    \/ \E s \in Stars : ToGravity(s)
    \/ \E s \in Stars : ToHyperway(s)
    \/ \E s \in Stars : Shard(s)
    \/ \E s \in Stars : LayerTraversalInjection(s)
    \/ \E t \in tasks : RunShard(t)
    \/ \E t \in tasks : RunInject(t)
    \/ \E t \in tasks : RunGlobal(t)
    \/ \E t \in tasks : StarCore(t)

SpecRouter == InitRouter /\ [][NextRouter]_vars

---------------------------------------------------------------------------
(* What a run of SpecRouter shows *)

(* the waves on their way: held by a task, on a lane, or in a queue *)
InFlight ==
    {t.wave : t \in tasks}
        \cup UNION {{lane[s][i] : i \in DOMAIN lane[s]} : s \in Stars}
        \cup UNION {{calls[s][i].wave : i \in DOMAIN calls[s]} : s \in Stars}

(* star s logged at position i that it received a hop from a lane *)
IsArrival(s, i) == log[s][i].ev = "Receive" /\ is_hop(log[s][i].wave)

(* the transport of that hop, its hops counted *)
Arrived(s, i) == [log[s][i].wave.body[1] EXCEPT !.hops = @ + 1]

(* what to_hyperway may log *)
ToHyperwayEvents ==
    {"HopSelf", "HopAdjacent", "HopForwarder", "ErrNoForwarders", "PanicUnimplemented"}

(* how many times star s handed transport t to to_hyperway, done or queued *)
HandedToHyperway(s, t) ==
    Cardinality({j \in DOMAIN calls[s] : calls[s][j] = Call("ToHyperway", t, NoSurface, FALSE)})
        + Cardinality({j \in DOMAIN log[s] :
                          log[s][j].ev \in ToHyperwayEvents /\ log[s][j].wave = t})

(* how many injections of wave w at surface sf, from gravity, star s has: queued,
   spawned or done *)
InjectedLocally(s, w, sf) ==
    Cardinality({j \in DOMAIN calls[s] :
                    calls[s][j] = Call("LayerTraversalInjection", w, sf, TRUE)})
        + Cardinality({t \in tasks : t = Task(s, "inject", w, sf, TRUE)})
        + Cardinality({j \in DOMAIN log[s] : log[s][j] = Event("Inject", w, sf, TRUE, <<>>)})

(* C1: a star that receives a hop counts one more hop on its transport, and a
   transport whose hops then exceed 255 is dropped: the star logs it and
   nothing else, no task, lane or queue holds a wave of its id afterwards, so
   it is neither injected nor forwarded nor answered by a reflection *)
C1_HopsCountedAndBounded ==
    \A s \in Stars : \A i \in DOMAIN log[s] :
        IsArrival(s, i) =>
            /\ i < Len(log[s])
            /\ log[s][i + 1].wave = Arrived(s, i)
            /\ (Arrived(s, i).hops > MaxHops =>
                  /\ log[s][i + 1].ev = "HopsExceeded"
                  /\ \A w \in InFlight : w.id # Arrived(s, i).id
                  /\ \A j \in DOMAIN log[s] :
                        j > i + 1 => log[s][j].wave.id # Arrived(s, i).id)

C1_Witness ==
    \E s \in Stars : \E i \in DOMAIN log[s] :
        /\ IsArrival(s, i)
        /\ log[s][i].wave.body[1].hops = MaxHops
        /\ i < Len(log[s])
        /\ log[s][i + 1].ev = "HopsExceeded"

(* C2: a star that receives a hop whose transport is addressed to it sends
   the transport down its layers from gravity, and the wave inside is injected
   at the star's own Gravity surface with from_gravity set, once; a transport
   addressed to another star goes to to_hyperway on a star of a forwarder
   kind, and on any other star is refused: an error, nothing sent *)
C2_ArrivalInjectedOrForwarded ==
    \A s \in Stars : \A i \in DOMAIN log[s] :
        (IsArrival(s, i) /\ Arrived(s, i).hops <= MaxHops) =>
            /\ i < Len(log[s])
            /\ LET t == Arrived(s, i)
                   e == log[s][i + 1]
               IN  IF to_single(t).point = s
                     THEN /\ e.ev = "SendToStartLayerTraversal"
                          /\ e.wave = t
                          /\ e.from_gravity
                          /\ \/ Task(s, "inject", t, e.surface, TRUE) \in tasks
                             \/ Task(s, "core", t, e.surface, TRUE) \in tasks
                             \/ InjectedLocally(s, t.body[1], gravity(s)) = 1
                          /\ InjectedLocally(s, t.body[1], gravity(s)) <= 1
                   ELSE IF kinds[s] = "Forwarder"
                     THEN e.ev \in ToHyperwayEvents /\ e.wave = t
                   ELSE /\ e.ev = "ErrNotForwarder"
                        /\ \A w \in InFlight : w.id # t.id
                        /\ \A j \in DOMAIN log[s] : j > i + 1 => log[s][j].wave.id # t.id

C2_Witness ==
    \E s \in Stars : \E i \in DOMAIN log[s] :
        /\ IsArrival(s, i)
        /\ to_single(Arrived(s, i)).point = s
        /\ \E j \in DOMAIN log[s] :
              log[s][j] = Event("Inject", Arrived(s, i).body[1], gravity(s), TRUE, <<>>)

(* C3: sharding a wave that is no ripple and whose one recipient the locator
   finds: on the recipient's own star the wave is injected there, from
   gravity, and no transport is built; otherwise exactly one transport, to the
   Core layer of the star that owns the recipient, is built and handed to
   ToHyperway *)
C3_SingleRecipientShard ==
    \A s \in Stars : \A i \in DOMAIN log[s] :
        LET w == log[s][i].wave
        IN  (/\ log[s][i].ev = "Sharding"
             /\ w.kind # "Ripple"
             /\ registry[to_single(w).point] # Absent) =>
                /\ i < Len(log[s])
                /\ LET e == log[s][i + 1]
                       owner == registry[to_single(w).point]
                       built == {j \in DOMAIN log[s] :
                                    log[s][j].ev = "ShardTransport" /\ log[s][j].wave.id = w.id}
                   IN  IF owner = s
                         THEN /\ e.ev = "ShardInject"
                              /\ e.from_gravity
                              /\ e.out = <<w>>
                              /\ InjectedLocally(s, w, e.surface) = 1
                              /\ built = {}
                              /\ \A x \in InFlight : ~(x.id = w.id /\ x.method \in {"Transport", "Hop"})
                         ELSE /\ e.ev = "ShardTransport"
                              /\ built = {i + 1}
                              /\ Len(e.out) = 1
                              /\ e.out[1].method = "Transport"
                              /\ e.out[1].body = <<w>>
                              /\ e.out[1].to = Single(Surface(owner, "Core"))
                              /\ HandedToHyperway(s, e.out[1]) = 1

C3_Witness ==
    \E s \in Stars : \E i, j \in DOMAIN log[s] :
        /\ log[s][i].ev = "ShardTransport"
        /\ log[s][i].wave.kind = "Ping"
        /\ log[s][j].ev \in ToHyperwayEvents
        /\ log[s][j].wave = log[s][i].out[1]
        /\ to_single(log[s][i].out[1]) = Surface("D", "Core")

(* C4: a transport given to to_hyperway for a star that is neither this star
   nor adjacent, on a star with no forwarder adjacency or with several, is not
   refused and does not stop the pump (a search for the star is started) *)
C4_FarTransportSearched ==
    \A s \in Stars : \A i \in DOMAIN log[s] :
        (/\ log[s][i].ev \in ToHyperwayEvents
         /\ to_single(log[s][i].wave).point \notin adjacents[s] \cup {s}
         /\ Cardinality(forwarders(s)) # 1) =>
            /\ log[s][i].ev \notin {"ErrNoForwarders", "PanicUnimplemented"}
            /\ pump[s] = "running"

(* the events of the shard star s logged at position i for ripple w: a
   transport built, or a local injection *)
ShardsOf(s, w) ==
    {j \in DOMAIN log[s] :
        log[s][j].ev \in {"ShardTransport", "ShardInject"} /\ log[s][j].wave.id = w.id}

(* the star a shard goes to, and the ripple it carries *)
ShardStar(s, e) == IF e.ev = "ShardTransport" THEN to_single(e.out[1]).point ELSE s

ShardRipple(e) == IF e.ev = "ShardTransport" THEN e.out[1].body[1] ELSE e.out[1]

(* C5: a star sharding a ripple to Stars builds exactly one transport for each
   adjacent star that is not in the ripple's history, hands each to
   ToHyperway, and builds none for a star of the history *)
C5_RippleToStars ==
    \A s \in Stars : \A i \in DOMAIN log[s] :
        LET w == log[s][i].wave
            targets == adjacents[s] \ w.history
        IN  (log[s][i].ev = "Sharding" /\ w.kind = "Ripple" /\ w.to.tag = "Stars") =>
                /\ ShardsOf(s, w) = {j \in DOMAIN log[s] : i < j /\ j <= i + Cardinality(targets)}
                /\ {ShardStar(s, log[s][j]) : j \in ShardsOf(s, w)} = targets
                /\ \A j \in ShardsOf(s, w) :
                      /\ log[s][j].ev = "ShardTransport"
                      /\ log[s][j].out[1].method = "Transport"
                      /\ log[s][j].out[1].to = Single(Surface(ShardStar(s, log[s][j]), "Core"))
                      /\ ShardStar(s, log[s][j]) \notin w.history
                      /\ HandedToHyperway(s, log[s][j].out[1]) = 1

C5_Witness ==
    \E s \in Stars : \E i \in DOMAIN log[s] :
        /\ log[s][i].ev = "Sharding"
        /\ log[s][i].wave.to.tag = "Stars"
        /\ Cardinality(adjacents[s]) = 3
        /\ Cardinality(forwarders(s)) = 2
        /\ adjacents[s] \cap log[s][i].wave.history = {}
        /\ Cardinality(ShardsOf(s, log[s][i].wave)) = 3

(* hop h carries a copy of ripple r to star x *)
CarriesRipple(h, r, x) ==
    /\ is_hop(h)
    /\ h.body[1].id = r
    /\ to_single(h.body[1]).point = x
    /\ Len(h.body[1].body) = 1
    /\ h.body[1].body[1].kind = "Ripple"

(* the copies of ripple r star x has received or is about to *)
RippleCopies(r, x) ==
    Cardinality({j \in DOMAIN log[x] :
                    log[x][j].ev = "Receive" /\ CarriesRipple(log[x][j].wave, r, x)})
        + Cardinality({j \in DOMAIN calls[x] : CarriesRipple(calls[x][j].wave, r, x)})
        + Cardinality({j \in DOMAIN lane[x] : CarriesRipple(lane[x][j], r, x)})

(* C6: whatever the mesh, a star receives a ripple at most once, it is never
   sent a copy of a ripple whose history holds it, and a ripple a star has
   received goes down to its Core and not out to its neighbours again *)
C6_RippleAtMostOnce ==
    /\ \A x \in Stars : \A r \in 1..emitted : RippleCopies(r, x) <= 1
    /\ \A s \in Stars : \A j \in DOMAIN log[s] :
          (log[s][j].ev = "ShardTransport" /\ log[s][j].wave.kind = "Ripple") =>
              /\ ShardStar(s, log[s][j]) \notin log[s][j].wave.history
              /\ ShardStar(s, log[s][j]) \notin ShardRipple(log[s][j]).history
              /\ ShardRipple(log[s][j]).history = log[s][j].wave.history \cup {s}
    /\ \A s \in Stars : \A i, j \in DOMAIN log[s] :
          (/\ log[s][i].ev = "Receive"
           /\ log[s][j].ev = "Sharding"
           /\ log[s][j].wave.kind = "Ripple") => ~CarriesRipple(log[s][i].wave, log[s][j].wave.id, s)

C6_Witness ==
    \E x, y \in Stars : \E r \in 1..emitted :
        /\ x # y
        /\ x \in adjacents[y]
        /\ \E i \in DOMAIN log[x] :
              /\ log[x][i].ev = "Inject"
              /\ log[x][i].wave.id = r
              /\ log[x][i].wave.kind = "Ripple"
        /\ \E i \in DOMAIN log[y] :
              /\ log[y][i].ev = "Inject"
              /\ log[y][i].wave.id = r
              /\ log[y][i].wave.kind = "Ripple"

(* C7: of a ripple to several particles every star that owns recipients gets
   exactly one shard, a transport or a local injection, listing the
   recipients it owns and no other *)
C7_MultiRecipientsSharded ==
    \A s \in Stars : \A i \in DOMAIN log[s] :
        LET w == log[s][i].wave
        IN  (log[s][i].ev = "Sharding" /\ w.kind = "Ripple" /\ w.to.tag = "Multi") =>
                \A x \in {registry[port.point] : port \in w.to.ports} :
                    Cardinality({j \in ShardsOf(s, w) :
                        /\ ShardStar(s, log[s][j]) = x
                        /\ ShardRipple(log[s][j]).to.ports =
                              {port \in w.to.ports : registry[port.point] = x}}) = 1

---------------------------------------------------------------------------
(* SpecLayers: state and actions *)

(* on star Self: the star itself, p1, the sender Source and the global
   executor have records; p2 lives on star D; Ghost has no record *)
LayerRegistry ==
    [p \in {Self, "p1", "p2", Source, GLOBAL_EXEC, Ghost} |->
        IF p = Ghost THEN Absent ELSE IF p = "p2" THEN "D" ELSE Self]

InitShells == {Self, "p1", Source}

SingleTargets ==
    {Surface("p1", l) : l \in {"Core", "Shell", "Portal"}}
        \cup {Surface(p, "Core") : p \in {"p2", Ghost, GLOBAL_EXEC}}

InputWaves ==
    {Wave(1, k, "Cmd", Surface(f, "Core"), Single(t), 0, {}, <<>>) :
        k \in {"Ping", "Signal", "Ripple", "Pong"}, f \in {"p1", Source}, t \in SingleTargets}
    \cup {Wave(1, "Ripple", "Search", Surface(f, "Core"), ToStars, 0, {}, <<>>) :
            f \in {Self, "D"}}
    \cup {Wave(1, "Ripple", "Cmd", Surface(Source, "Core"),
               Multi({Surface("p1", "Core"), Surface(p, "Core")}), 0, {}, <<>>) :
            p \in {"p2", Ghost, Source}}

(* from_gravity and the forced direction of an injection *)
InputModes ==
    {<<FALSE, NoDir>>, <<TRUE, NoDir>>, <<FALSE, "Core">>, <<FALSE, "Fabric">>,
     <<TRUE, "Fabric">>}

LayerInputs ==
    {Injection(Surface(IF m[1] THEN Self ELSE w.from.point, l), w, m[1], m[2]) :
        w \in InputWaves, l \in {Layers[i] : i \in 1..Len(Layers)}, m \in InputModes}

InitRouterIdle ==
    /\ adjacents = AdjOf(Hub)
    /\ kinds = ForwardBC
    /\ calls = [s \in Stars |-> <<>>]
    /\ tasks = {}
    /\ lane = [s \in Stars |-> <<>>]
    /\ pump = [s \in Stars |-> "running"]
    /\ log = [s \in Stars |-> <<>>]
    /\ emitted = 0

InitLayers ==
    /\ InitOuterIdle
    /\ InitRouterIdle
    /\ registry = LayerRegistry
    /\ shells = InitShells
    /\ \E inj \in LayerInputs : injections = {inj}
    /\ traversals = {}
    /\ ltrace = <<>>

Item(stage, t) == [stage |-> stage, trav |-> t]

(* HyperStarCall::LayerTraversalInjection: the spawned engine.inject *)
Inject(inj) ==
    /\ \E order \in tos_orders(inj.wave), order2 \in tos_orders(reflect(inj.wave)) :
          LET o == inject(inj, order, order2)
          IN  /\ traversals' = traversals \cup {Item("visit", t) : t \in o.visits}
              /\ ltrace' = ltrace \o o.events
    /\ injections' = injections \ {inj}
    /\ UNCHANGED <<outerVars, routerVars, shells>>

(* the spawned visit of a Field or Shell layer succeeds: the layer hands the
   traversal on through TraverseToNextRouter *)
VisitOk(it) ==
    /\ it.stage = "visit"
    /\ traversals' = (traversals \ {it}) \cup {Item("next", it.trav)}
    /\ UNCHANGED <<outerVars, routerVars, injections, shells, ltrace>>

(* the spawned visit fails: visit_layer logs the result *)
VisitFail(it) ==
    /\ it.stage = "visit"
    /\ traversals' = traversals \ {it}
    /\ ltrace' = Append(ltrace, LEvent("VisitErrLogged", NoInjection, it.trav))
    /\ UNCHANGED <<outerVars, routerVars, injections, shells>>

(* HyperStarCall::TraverseToNextLayer: the spawned traverse_to_next_layer *)
TraverseToNextLayer(it) ==
    /\ it.stage = "next"
    /\ LET o == traverse_to_next_layer(it.trav)
       IN  /\ traversals' = (traversals \ {it}) \cup {Item("visit", t) : t \in o.visits}
           /\ ltrace' = ltrace \o o.events
    /\ UNCHANGED <<outerVars, routerVars, injections, shells>>

NextLayers ==
    \/ \E inj \in injections : Inject(inj)
    \/ \E it \in traversals : VisitOk(it)
    \/ \E it \in traversals : VisitFail(it)
    \/ \E it \in traversals : TraverseToNextLayer(it)

SpecLayers == InitLayers /\ [][NextLayers]_vars

---------------------------------------------------------------------------
(* What a run of SpecLayers shows *)

(* C8: with no direction forced, a traversal starts toward Core when the
   injection comes from gravity; else toward Fabric when the destination is a
   global point; else, when the destination is the point the wave comes from,
   from the injector's layer toward the destination's layer, Fabric if they
   are the same layer; toward Fabric in every other case *)
C8_DirectionRule ==
    \A i \in DOMAIN ltrace :
        LET e == ltrace[i]
        IN  (e.ev = "Traversal" /\ e.inj.dir = NoDir) =>
                e.trav.dir =
                    IF e.inj.from_gravity THEN "Core"
                    ELSE IF e.trav.to.point = GLOBAL_EXEC THEN "Fabric"
                    ELSE IF e.trav.to.point = e.inj.wave.from.point
                      THEN IF Ord(e.inj.surface.layer) < Ord(e.trav.to.layer)
                             THEN "Core"
                             ELSE "Fabric"
                    ELSE "Fabric"

C8_Witness ==
    \E i \in DOMAIN ltrace :
        /\ ltrace[i].ev = "Traversal"
        /\ ltrace[i].inj.dir = NoDir
        /\ ~ltrace[i].inj.from_gravity
        /\ ltrace[i].trav.to.point = ltrace[i].inj.wave.from.point
        /\ ltrace[i].inj.surface.layer = "Field"
        /\ ltrace[i].trav.to.layer = "Shell"
        /\ ltrace[i].trav.dir = "Core"

(* what start_layer_traversal logs when it fails *)
StartFailures == {"ErrNotFound", "ErrNotInPlan", "ErrNotLocated", "ErrNoShell"}

(* the injection whose start failed at position i of the trace *)
FailedInjection(i) == IF ltrace[i].ev = "ErrNoShell" THEN ltrace[i - 1].inj ELSE ltrace[i].inj

Reflections == {j \in DOMAIN ltrace : ltrace[j].ev = "Reflect"}

(* C9: when the start of the traversal of an injected Ping or Ripple fails,
   one reflected wave, to the source of the wave, is injected at the surface
   of the first injection, not from gravity, no direction forced, and its own
   traversal is started; when a Signal fails the error is logged and that is
   all *)
C9_StartFailureReflected ==
    \A i \in DOMAIN ltrace :
        LET inj == FailedInjection(i)
        IN  (ltrace[i].ev \in StartFailures /\ inj.wave.kind \in {"Ping", "Ripple", "Signal"}) =>
                /\ i < Len(ltrace)
                /\ IF inj.wave.kind = "Signal"
                     THEN /\ ltrace[i + 1].ev = "ErrLogged"
                          /\ i + 1 = Len(ltrace)
                          /\ Reflections = {}
                          /\ \A it \in traversals : it.trav.wave = inj.wave
                     ELSE /\ Reflections = {i + 1}
                          /\ ltrace[i + 1].inj.wave.kind \in {"Pong", "Echo"}
                          /\ ltrace[i + 1].inj.wave.to = Single(inj.wave.from)
                          /\ ltrace[i + 1].inj.surface = inj.surface
                          /\ ~ltrace[i + 1].inj.from_gravity
                          /\ ltrace[i + 1].inj.dir = NoDir
                          /\ i + 1 < Len(ltrace)
                          /\ ltrace[i + 2].inj = ltrace[i + 1].inj
                          /\ ltrace[i + 2].ev \in StartFailures \cup {"Traversal"}

C9_Witness ==
    \E i \in DOMAIN ltrace :
        /\ ltrace[i].ev = "ErrNotFound"
        /\ ltrace[i].inj.wave.kind = "Ping"
        /\ i + 1 < Len(ltrace)
        /\ ltrace[i + 1].ev = "Reflect"
        /\ ltrace[i + 2].ev = "Traversal"
        /\ ltrace[i + 2].trav.wave.kind = "Pong"

(* C10: once the engine is at rest, every failed visit of a Field or Shell
   layer by a traversal carrying a Ping or a Ripple has been answered by a
   reflected wave to the source of that wave *)
C10_VisitFailureReflected ==
    (injections = {} /\ traversals = {}) =>
        \A i \in DOMAIN ltrace :
            (/\ ltrace[i].ev = "VisitErrLogged"
             /\ ltrace[i].trav.layer \in {"Field", "Shell"}
             /\ ltrace[i].trav.wave.kind \in {"Ping", "Ripple"}) =>
                \E j \in Reflections :
                    /\ j > i
                    /\ ltrace[j].inj.wave.to = Single(ltrace[i].trav.wave.from)

---------------------------------------------------------------------------
(* SpecHandshake: FrameMuxer::handshake at the two ends of one connection
   (src/rust/cosmic/cosmic-hyperlane-tcp/src/lib.rs).

   A frame on the wire is the text of a version or a status string.  Time is
   counted in seconds: an end that waits in tokio::time::timeout lets seconds
   pass until the frame is read or the timer fires. *)

HandshakeTimeout == 30

Ends == {"client", "server"}
Versions == {"1.0.0", "2.0.0"}
StatusFrames == {"Ok", "Err"}
far(e) == IF e = "client" THEN "server" ELSE "client"

(* in_version == *VERSION, accepting every version *)
same_version_any(in_version, v) == TRUE

(* in_version == *VERSION *)
same_version(in_version, v) == in_version = v

HsState(pc, waited, result, err) ==
    [pc |-> pc, waited |-> waited, result |-> result, err |-> err]

(* the handshake returned Err(err) *)
HsErr(err) == HsState("done", 0, "Err", err)

(* the handshake returned Ok(Self::new(stream, logger)): an endpoint *)
HsOk == HsState("done", 0, "Ok", "")

Reading == {"read_version", "read_status"}
Writing == {"write_version", "write_ok", "write_err"}

(* the star of SpecRouter and SpecLayers, at rest *)
InitStarIdle ==
    /\ InitRouterIdle
    /\ registry = InitRegistry
    /\ InitEngineIdle

InitHandshake ==
    /\ InitStarIdle
    /\ InitStoreIdle
    /\ InitLocatorIdle
    /\ InitExtraIdle
    /\ InitFrameIdle
    /\ InitLaneIdle
    /\ version \in [Ends -> Versions]
    /\ honest \in BOOLEAN
    /\ hs = [e \in Ends |->
                IF e = "server" /\ ~honest
                    THEN HsState("foreign", 0, "", "")
                    ELSE HsState("write_version", 0, "", "")]
    /\ wire = [e \in Ends |-> <<>>]
    /\ status_ch = [e \in Ends |-> <<>>]
    /\ elapsed = [e \in Ends |-> 0]

(* stream.write_version(&VERSION) *)
WriteVersion(e) ==
    /\ hs[e].pc = "write_version"
    /\ wire' = [wire EXCEPT ![far(e)] = Append(@, version[e])]
    /\ hs' = [hs EXCEPT ![e] = HsState("read_version", 0, "", "")]
    /\ UNCHANGED <<version, honest, status_ch, elapsed>>

(* timeout(30 s, stream.read_version()) returned a frame: a frame that is no
   version fails to parse; a version is compared with VERSION, and on a
   mismatch the Handshake status is sent before anything else *)
ReadVersion(e) ==
    /\ hs[e].pc = "read_version"
    /\ wire[e] # <<>>
    /\ wire' = [wire EXCEPT ![e] = Tail(@)]
    /\ LET in_version == Head(wire[e])
       IN  IF in_version \notin Versions
               THEN /\ hs' = [hs EXCEPT ![e] = HsErr("parse")]
                    /\ UNCHANGED status_ch
               ELSE IF same_version(in_version, version[e])
                   THEN /\ hs' = [hs EXCEPT ![e] = HsState("write_ok", 0, "", "")]
                        /\ UNCHANGED status_ch
                   ELSE /\ hs' = [hs EXCEPT ![e] = HsState("write_err", 0, "", "")]
                        /\ status_ch' = [status_ch EXCEPT ![e] = Append(@, "Handshake")]
    /\ UNCHANGED <<version, honest, elapsed>>

(* stream.write_string("Ok") *)
WriteOk(e) ==
    /\ hs[e].pc = "write_ok"
    /\ wire' = [wire EXCEPT ![far(e)] = Append(@, "Ok")]
    /\ hs' = [hs EXCEPT ![e] = HsState("read_status", 0, "", "")]
    /\ UNCHANGED <<version, honest, status_ch, elapsed>>

(* stream.write_string(msg); return Err(msg.into()) *)
WriteErr(e) ==
    /\ hs[e].pc = "write_err"
    /\ wire' = [wire EXCEPT ![far(e)] = Append(@, "Err")]
    /\ hs' = [hs EXCEPT ![e] = HsErr("version mismatch")]
    /\ UNCHANGED <<version, honest, status_ch, elapsed>>

(* timeout(30 s, stream.read_string()) returned a frame *)
ReadStatus(e) ==
    /\ hs[e].pc = "read_status"
    /\ wire[e] # <<>>
    /\ wire' = [wire EXCEPT ![e] = Tail(@)]
    /\ hs' = [hs EXCEPT ![e] = IF Head(wire[e]) = "Ok" THEN HsOk ELSE HsErr("not ok")]
    /\ UNCHANGED <<version, honest, status_ch, elapsed>>

(* a second passes while an end waits in a timeout for a frame that has not
   arrived *)
Second(e) ==
    /\ hs[e].pc \in Reading
    /\ wire[e] = <<>>
    /\ hs[e].waited < HandshakeTimeout
    /\ hs' = [hs EXCEPT ![e].waited = @ + 1]
    /\ elapsed' = [elapsed EXCEPT ![e] = @ + 1]
    /\ UNCHANGED <<version, honest, wire, status_ch>>

(* the timer of tokio::time::timeout fires: Err(Elapsed) leaves by `??` *)
TimedOut(e) ==
    /\ hs[e].pc \in Reading
    /\ hs[e].waited = HandshakeTimeout
    /\ hs' = [hs EXCEPT ![e] = HsErr("timeout")]
    /\ UNCHANGED <<version, honest, wire, status_ch, elapsed>>

(* a read or a write of the stream fails: the io error leaves by `?` *)
IoError(e) ==
    /\ hs[e].pc \in Reading \cup Writing
    /\ hs' = [hs EXCEPT ![e] = HsErr("io")]
    /\ UNCHANGED <<version, honest, wire, status_ch, elapsed>>

(* a far end that is some other program writes a frame of its choosing *)
ForeignWrites(f) ==
    /\ ~honest
    /\ Len(wire["client"]) < 2
    /\ wire' = [wire EXCEPT !["client"] = Append(@, f)]
    /\ UNCHANGED <<version, honest, hs, status_ch, elapsed>>

NextHandshake ==
    \/ \E e \in Ends : /\ WriteVersion(e)
                       /\ UNCHANGED <<starVars, frameVars, laneVars, storeVars, locatorVars, extraVars>>
    \/ \E e \in Ends : /\ ReadVersion(e)
                       /\ UNCHANGED <<starVars, frameVars, laneVars, storeVars, locatorVars, extraVars>>
    \/ \E e \in Ends : /\ WriteOk(e)
                       /\ UNCHANGED <<starVars, frameVars, laneVars, storeVars, locatorVars, extraVars>>
    \/ \E e \in Ends : /\ WriteErr(e)
                       /\ UNCHANGED <<starVars, frameVars, laneVars, storeVars, locatorVars, extraVars>>
    \/ \E e \in Ends : /\ ReadStatus(e)
                       /\ UNCHANGED <<starVars, frameVars, laneVars, storeVars, locatorVars, extraVars>>
    \/ \E e \in Ends : /\ Second(e)
                       /\ UNCHANGED <<starVars, frameVars, laneVars, storeVars, locatorVars, extraVars>>
    \/ \E e \in Ends : /\ TimedOut(e)
                       /\ UNCHANGED <<starVars, frameVars, laneVars, storeVars, locatorVars, extraVars>>
    \/ \E e \in Ends : /\ IoError(e)
                       /\ UNCHANGED <<starVars, frameVars, laneVars, storeVars, locatorVars, extraVars>>
    \/ \E f \in Versions \cup StatusFrames : /\ ForeignWrites(f)
                                             /\ UNCHANGED <<starVars, frameVars, laneVars, storeVars, locatorVars, extraVars>>

SpecHandshake == InitHandshake /\ [][NextHandshake]_vars

---------------------------------------------------------------------------
(* SpecHandshake: the claims *)

Finished(e) == hs[e].pc = "done"
Endpoint(e) == Finished(e) /\ hs[e].result = "Ok"
Failed(e) == Finished(e) /\ hs[e].result = "Err"

(* what the connection, not the handshake, can do to an end *)
ConnectionFaults == {"io", "timeout"}

(* C11: when both ends run the handshake, with equal versions an end that
   finishes obtains an endpoint unless the connection failed it, and with
   different versions no end ever passes the version check or obtains an
   endpoint, no end waits more than 30 seconds, and an end that finishes
   finishes with an error *)
C11_HandshakeByVersion ==
    honest =>
        /\ version["client"] = version["server"] =>
              \A e \in Ends :
                  Finished(e) => (Endpoint(e) \/ hs[e].err \in ConnectionFaults)
        /\ version["client"] # version["server"] =>
              \A e \in Ends :
                  /\ ~Endpoint(e)
                  /\ hs[e].pc \notin {"write_ok", "read_status"}
                  /\ elapsed[e] <= HandshakeTimeout
                  /\ Finished(e) => Failed(e)

C11_Witness ==
    /\ honest
    /\ version["client"] # version["server"]
    /\ \A e \in Ends : Failed(e) /\ hs[e].err = "version mismatch"
    /\ \E e \in Ends : elapsed[e] > 0

(* C12: an end whose handshake returned an error has sent a Handshake status
   on its status channel *)
C12_FailureReportsStatus ==
    \A e \in Ends :
        Failed(e) => \E i \in DOMAIN status_ch[e] : status_ch[e][i] = "Handshake"

---------------------------------------------------------------------------
(* SpecFrame: Frame::to_stream at one end of a stream and Frame::from_stream
   at the other (src/rust/cosmic/cosmic-hyperlane-tcp/src/lib.rs 182-198).

   The stream carries bytes in order.  The length prefix is one item of the
   stream, a word of LenBits bits (32 in the program, fewer here so that a
   payload can be as long as the word can count). *)

LenBits == 2
MaxPayload == 4

Bytes == {"x", "y"}
Word == 2 ^ LenBits

RECURSIVE SeqsUpTo(_, _)
SeqsUpTo(S, n) ==
    IF n = 0 THEN {<<>>}
    ELSE LET shorter == SeqsUpTo(S, n - 1)
         IN  shorter \cup {Append(b, x) : b \in {q \in shorter : Len(q) = n - 1}, x \in S}

Payloads == SeqsUpTo(Bytes, MaxPayload)

(* self.data.len() as u32 *)
as_u32(n) == n % Word

LenItem(n) == [t |-> "len", v |-> n]
ByteItem(b) == [t |-> "byte", v |-> b]

(* Vec::with_capacity(size), were it to leave room for a byte more *)
with_capacity_roomy(size) == size + 1

(* Vec::with_capacity(size): the capacity the build gives a Vec<u8> *)
with_capacity(size) == size

Writer(i, pc, off) == [i |-> i, pc |-> pc, off |-> off]
Reader(pc, size, cap, data) == [pc |-> pc, size |-> size, cap |-> cap, data |-> data]
Frame(size, data) == [size |-> size, data |-> data]

InitFrame ==
    /\ InitStarIdle
    /\ InitStoreIdle
    /\ InitLocatorIdle
    /\ InitExtraIdle
    /\ InitHandshakeIdle
    /\ InitLaneIdle
    /\ outbox \in {<<b>> : b \in Payloads} \cup {<<b, c>> : b \in Payloads, c \in Payloads}
    /\ wr = Writer(1, "prefix", 0)
    /\ stream = <<>>
    /\ rd = Reader("size", 0, 0, <<>>)
    /\ frames = <<>>

(* to_stream: write.write_u32(self.data.len() as u32) *)
WritePrefix ==
    /\ wr.pc = "prefix"
    /\ wr.i <= Len(outbox)
    /\ stream' = Append(stream, LenItem(as_u32(Len(outbox[wr.i]))))
    /\ wr' = Writer(wr.i, "body", 0)
    /\ UNCHANGED <<outbox, rd, frames>>

(* to_stream: write.write_all(self.data.as_slice()), a byte at a time *)
WriteByte ==
    /\ wr.pc = "body"
    /\ wr.off < Len(outbox[wr.i])
    /\ stream' = Append(stream, ByteItem(outbox[wr.i][wr.off + 1]))
    /\ wr' = Writer(wr.i, "body", wr.off + 1)
    /\ UNCHANGED <<outbox, rd, frames>>

(* to_stream: write.flush(); Ok(()) and the next frame, if any *)
Flush ==
    /\ wr.pc = "body"
    /\ wr.off = Len(outbox[wr.i])
    /\ wr' = Writer(wr.i + 1, "prefix", 0)
    /\ UNCHANGED <<outbox, stream, rd, frames>>

(* from_stream: read.read_u32() and Vec::with_capacity(size); the loop is
   not entered when size is 0.  A reader that finds payload bytes where a
   prefix should be has lost the frame boundaries. *)
ReadSize ==
    /\ rd.pc = "size"
    /\ stream # <<>>
    /\ stream' = Tail(stream)
    /\ IF Head(stream).t = "len"
           THEN LET size == Head(stream).v
                IN  IF size = 0
                        THEN /\ frames' = Append(frames, Frame(0, <<>>))
                             /\ rd' = Reader("size", 0, 0, <<>>)
                        ELSE /\ rd' = Reader("body", size, with_capacity(size), <<>>)
                             /\ UNCHANGED frames
           ELSE /\ rd' = Reader("lost", 0, 0, <<>>)
                /\ UNCHANGED frames
    /\ UNCHANGED <<outbox, wr>>

(* from_stream: one read.read_buf(&mut data) of the loop: it takes k of the
   bytes that arrived, at least one and no more than the spare capacity of
   data; the frame is returned when data.len() reaches size *)
ReadBuf(k) ==
    /\ rd.pc = "body"
    /\ k >= 1
    /\ k <= Len(stream)
    /\ k <= rd.cap - Len(rd.data)
    /\ LET data == rd.data \o [j \in 1..k |-> stream[j].v]
       IN  /\ stream' = SubSeq(stream, k + 1, Len(stream))
           /\ IF Len(data) < rd.size
                  THEN /\ rd' = Reader("body", rd.size, rd.cap, data)
                       /\ UNCHANGED frames
                  ELSE /\ rd' = Reader("size", 0, 0, <<>>)
                       /\ frames' = Append(frames, Frame(rd.size, data))
    /\ UNCHANGED <<outbox, wr>>

NextFrame ==
    \/ WritePrefix /\ UNCHANGED <<starVars, handshakeVars, laneVars, storeVars, locatorVars, extraVars>>
    \/ WriteByte /\ UNCHANGED <<starVars, handshakeVars, laneVars, storeVars, locatorVars, extraVars>>
    \/ Flush /\ UNCHANGED <<starVars, handshakeVars, laneVars, storeVars, locatorVars, extraVars>>
    \/ ReadSize /\ UNCHANGED <<starVars, handshakeVars, laneVars, storeVars, locatorVars, extraVars>>
    \/ \E k \in 1..MaxPayload : ReadBuf(k) /\ UNCHANGED <<starVars, handshakeVars, laneVars, storeVars, locatorVars, extraVars>>

SpecFrame == InitFrame /\ [][NextFrame]_vars

---------------------------------------------------------------------------
(* SpecFrame: the claims *)

(* C13: the frames from_stream returns are, in order, the payloads written
   with to_stream, each with exactly its bytes, whatever is written behind
   it, and every returned frame has as many bytes as its length prefix said *)
C13_FrameRoundTrip ==
    /\ Len(frames) <= Len(outbox)
    /\ \A i \in DOMAIN frames :
          /\ frames[i].data = outbox[i]
          /\ Len(frames[i].data) = frames[i].size

(* C13, amended: as long as every payload written so far is shorter than
   the length prefix can count (2^32 bytes in the program), the frames
   from_stream returns are, in order, the payloads written, each with exactly
   its bytes and with as many bytes as its length prefix said *)
C13_FrameRoundTripBelowWord ==
    \A i \in DOMAIN frames :
        (i <= Len(outbox) /\ \A j \in 1..i : Len(outbox[j]) < Word) =>
            /\ frames[i].data = outbox[i]
            /\ Len(frames[i].data) = frames[i].size

C13_Witness ==
    /\ Len(outbox) = 2
    /\ Len(outbox[1]) = 3
    /\ frames = <<Frame(3, outbox[1])>>
    /\ wr.i = 3
    /\ Len(stream) = 1 + Len(outbox[2])

---------------------------------------------------------------------------
(* SpecLane: one accepted connection of HyperlaneTcpServer after its
   handshake succeeded: serve() waiting for the Knock, and the mux loop that
   FrameMuxer::new spawned (src/rust/cosmic/cosmic-hyperlane-tcp/src/lib.rs
   261-320 and 442-500).

   The HyperwayEndpoint that handshake returned owns out_tx, in_rx and the
   oneshot terminate sender.  Whoever holds it drops all three together, and
   the task of lines 279-283 turns the drop (or the send) of the oneshot into
   the terminate signal. *)

KnockTimeout == 30
InCap == 1
MaxIn == 2
MaxOut == 2

InboundWaves == {"Knock", "Ping", "Pong"}

(* knock.to_directed(): a reflected wave is no directed wave *)
to_directed_ok(w) == w \in {"Knock", "Ping"}

(* if let Substance::Knock(knock) = knock.body(), matching every body *)
body_is_knock_any(w) == TRUE

(* if let Substance::Knock(knock) = knock.body() *)
body_is_knock(w) == w = "Knock"

Mux(pc, held) == [pc |-> pc, held |-> held]
Serve(pc, waited, read, gate, mounted) ==
    [pc |-> pc, waited |-> waited, read |-> read, gate |-> gate, mounted |-> mounted]

InitLane ==
    /\ InitStarIdle
    /\ InitStoreIdle
    /\ InitLocatorIdle
    /\ InitExtraIdle
    /\ InitHandshakeIdle
    /\ InitFrameIdle
    /\ mux = Mux("select", "")
    /\ net_in = <<>>
    /\ net_out = <<>>
    /\ in_ch = <<>>
    /\ out_ch = <<>>
    /\ endpoint = "serve"
    /\ terminate = FALSE
    /\ serve = Serve("knock", 0, <<>>, "", FALSE)
    /\ produced = [peer |-> 0, out |-> 0]

(* the endpoint is dropped: in_rx and out_tx close, the terminate signal goes *)
Dropped == endpoint = "dropped"

(* serve returns an error: its `mux`, the endpoint, is dropped with it *)
ServeErr(read, gate) ==
    /\ serve' = Serve("err", 0, read, gate, FALSE)
    /\ endpoint' = "dropped"
    /\ terminate' = TRUE

(* timeout(30 s, mux.rx.recv()) returned a wave; to_directed()?; the Knock test *)
ServeKnock ==
    /\ serve.pc = "knock"
    /\ in_ch # <<>>
    /\ in_ch' = Tail(in_ch)
    /\ LET w == Head(in_ch)
           read == Append(serve.read, w)
       IN  IF to_directed_ok(w) /\ body_is_knock(w)
               THEN /\ serve' = Serve("gate", 0, read, "", FALSE)
                    /\ UNCHANGED <<endpoint, terminate>>
               ELSE ServeErr(read, "")
    /\ UNCHANGED <<mux, net_in, net_out, out_ch, produced>>

(* a second passes while serve waits for the first wave *)
ServeSecond ==
    /\ serve.pc = "knock"
    /\ in_ch = <<>>
    /\ serve.waited < KnockTimeout
    /\ serve' = [serve EXCEPT !.waited = @ + 1]
    /\ UNCHANGED <<mux, net_in, net_out, in_ch, out_ch, endpoint, terminate, produced>>

(* the wait for the first wave ends without one: the timer fires (`.await?`)
   or the mux loop is gone and recv() returns None (ok_or("expected wave")?) *)
ServeNoWave ==
    /\ serve.pc = "knock"
    /\ in_ch = <<>>
    /\ serve.waited = KnockTimeout \/ mux.pc = "stopped"
    /\ ServeErr(serve.read, "")
    /\ UNCHANGED <<mux, net_in, net_out, in_ch, out_ch, produced>>

(* gate.knock(knock).await?; mux.connect(endpoint) *)
ServeGate(accept) ==
    /\ serve.pc = "gate"
    /\ IF accept
           THEN /\ serve' = Serve("ok", 0, serve.read, "accept", TRUE)
                /\ endpoint' = "mounted"
                /\ UNCHANGED terminate
           ELSE ServeErr(serve.read, "reject")
    /\ UNCHANGED <<mux, net_in, net_out, in_ch, out_ch, produced>>

(* select!: self.rx.recv() gave Some(wave); the loop goes on to write it *)
MuxRecv ==
    /\ mux.pc = "select"
    /\ out_ch # <<>>
    /\ mux' = Mux("writing", Head(out_ch))
    /\ out_ch' = Tail(out_ch)
    /\ UNCHANGED <<net_in, net_out, in_ch, endpoint, terminate, serve, produced>>

(* select!: self.rx.recv() gave None: "rx discon", break *)
MuxRecvNone ==
    /\ mux.pc = "select"
    /\ out_ch = <<>>
    /\ Dropped
    /\ mux' = Mux("stopped", "")
    /\ UNCHANGED <<net_in, net_out, in_ch, out_ch, endpoint, terminate, serve, produced>>

(* self.stream.write_wave(wave).await completes, once the peer takes the bytes *)
MuxWritten ==
    /\ mux.pc = "writing"
    /\ net_out' = Append(net_out, mux.held)
    /\ mux' = Mux("select", "")
    /\ UNCHANGED <<net_in, in_ch, out_ch, endpoint, terminate, serve, produced>>

(* select!: self.stream.read_wave() gave Ok(wave); the loop goes on to send it *)
MuxRead ==
    /\ mux.pc = "select"
    /\ net_in # <<>>
    /\ mux' = Mux("sending", Head(net_in))
    /\ net_in' = Tail(net_in)
    /\ UNCHANGED <<net_out, in_ch, out_ch, endpoint, terminate, serve, produced>>

(* self.tx.send(wave).await completes: there is room in the inbound channel,
   or in_rx is gone and the error leaves the loop by `?` *)
MuxSent ==
    /\ mux.pc = "sending"
    /\ IF Dropped
           THEN /\ mux' = Mux("stopped", "")
                /\ UNCHANGED in_ch
           ELSE /\ Len(in_ch) < InCap
                /\ in_ch' = Append(in_ch, mux.held)
                /\ mux' = Mux("select", "")
    /\ UNCHANGED <<net_in, net_out, out_ch, endpoint, terminate, serve, produced>>

(* the stream fails: read_wave gives Err in the select (break), or write_wave
   fails and the error leaves by `?` *)
MuxStreamErr ==
    /\ mux.pc \in {"select", "writing"}
    /\ mux' = Mux("stopped", "")
    /\ UNCHANGED <<net_in, net_out, in_ch, out_ch, endpoint, terminate, serve, produced>>

(* select!: self.terminate_rx.recv(): "terminated", return Ok(()) *)
MuxTerminated ==
    /\ mux.pc = "select"
    /\ terminate
    /\ mux' = Mux("stopped", "")
    /\ UNCHANGED <<net_in, net_out, in_ch, out_ch, endpoint, terminate, serve, produced>>

(* the peer writes a wave on the stream *)
PeerWrites(w) ==
    /\ produced.peer < MaxIn
    /\ net_in' = Append(net_in, w)
    /\ produced' = [produced EXCEPT !.peer = @ + 1]
    /\ UNCHANGED <<mux, net_out, in_ch, out_ch, endpoint, terminate, serve>>

(* the mounted side hands a wave to the endpoint's tx *)
Outbound ==
    /\ endpoint = "mounted"
    /\ produced.out < MaxOut
    /\ out_ch' = Append(out_ch, "Wave")
    /\ produced' = [produced EXCEPT !.out = @ + 1]
    /\ UNCHANGED <<mux, net_in, net_out, in_ch, endpoint, terminate, serve>>

(* the mounted side takes a wave from the endpoint's rx *)
Drain ==
    /\ endpoint = "mounted"
    /\ in_ch # <<>>
    /\ in_ch' = Tail(in_ch)
    /\ UNCHANGED <<mux, net_in, net_out, out_ch, endpoint, terminate, serve, produced>>

(* the mounted side lets go of the endpoint *)
Disconnect ==
    /\ endpoint = "mounted"
    /\ endpoint' = "dropped"
    /\ terminate' = TRUE
    /\ UNCHANGED <<mux, net_in, net_out, in_ch, out_ch, serve, produced>>

LaneRest == <<starVars, handshakeVars, frameVars, storeVars, locatorVars, extraVars>>

NextLane ==
    \/ ServeKnock /\ UNCHANGED LaneRest
    \/ ServeSecond /\ UNCHANGED LaneRest
    \/ ServeNoWave /\ UNCHANGED LaneRest
    \/ \E accept \in BOOLEAN : ServeGate(accept) /\ UNCHANGED LaneRest
    \/ MuxRecv /\ UNCHANGED LaneRest
    \/ MuxRecvNone /\ UNCHANGED LaneRest
    \/ MuxWritten /\ UNCHANGED LaneRest
    \/ MuxRead /\ UNCHANGED LaneRest
    \/ MuxSent /\ UNCHANGED LaneRest
    \/ MuxStreamErr /\ UNCHANGED LaneRest
    \/ MuxTerminated /\ UNCHANGED LaneRest
    \/ \E w \in InboundWaves : PeerWrites(w) /\ UNCHANGED LaneRest
    \/ Outbound /\ UNCHANGED LaneRest
    \/ Drain /\ UNCHANGED LaneRest
    \/ Disconnect /\ UNCHANGED LaneRest

SpecLane == InitLane /\ [][NextLane]_vars

(* The mux task is scheduled: a step of the loop that needs nothing from
   outside the task is eventually taken.  That a write on the stream
   completes is up to the peer, and that the inbound channel is emptied is up
   to the holder of the endpoint: neither is assumed. *)
LaneFairness ==
    /\ WF_vars(MuxRecv /\ UNCHANGED LaneRest)
    /\ WF_vars(MuxRecvNone /\ UNCHANGED LaneRest)
    /\ WF_vars(MuxRead /\ UNCHANGED LaneRest)
    /\ WF_vars(MuxSent /\ UNCHANGED LaneRest)
    /\ SF_vars(MuxTerminated /\ UNCHANGED LaneRest)

SpecLaneLive == SpecLane /\ LaneFairness

---------------------------------------------------------------------------
(* SpecLane: the claims *)

(* C14: the endpoint is mounted only after serve read exactly one inbound
   wave, a Knock, that the gate accepted; and when serve ended with no wave
   read, with a first wave that is no Knock, or with the gate's rejection,
   no endpoint was mounted and the connection's terminate signal is sent *)
C14_MountOnlyAfterKnock ==
    /\ serve.mounted =>
          /\ Len(serve.read) = 1
          /\ serve.read[1] = "Knock"
          /\ serve.gate = "accept"
    /\ (/\ serve.pc \in {"ok", "err"}
        /\ \/ serve.read = <<>>
           \/ serve.read[1] # "Knock"
           \/ serve.gate = "reject") =>
          /\ ~serve.mounted
          /\ endpoint = "dropped"
          /\ terminate

C14_Witness ==
    /\ serve.mounted
    /\ serve.read = <<"Knock">>
    /\ endpoint = "mounted"
    /\ produced.peer = 2

(* C15: once the terminate signal is sent the mux loop eventually stops, and
   a stopped loop delivers no inbound wave and writes no outbound wave *)
C15_TerminateStopsMux ==
    /\ terminate ~> (mux.pc = "stopped")
    /\ [][mux.pc = "stopped" =>
            /\ net_out' = net_out
            /\ Len(in_ch') <= Len(in_ch)]_vars

---------------------------------------------------------------------------
(* SpecRegistry: PostgresRegistry::register and ::delete on the table
   `particles` (src/rust/cosmic/cosmic-registry-postgres/src/lib.rs).

   A point is the sequence of its segments; the root is the empty sequence
   and has no row.  A row keeps the columns the calls below read or write. *)

MaxOps == 3

Root == <<>>
Points == {<<"a">>, <<"a", "b">>, <<"a", "b", "c">>}
Kinds == {"App", "Mechtron"}
Strategies == {"Commit", "Ensure", "Override"}
NoStar == ""

(* Point::parent *)
parent(p) == SubSeq(p, 1, Len(p) - 1)

Row(p, kind, status, star) == [point |-> p, kind |-> kind, status |-> status, star |-> star]
Registration(p, kind, strategy) == [point |-> p, kind |-> kind, strategy |-> strategy]

(* SELECT count from particles WHERE point=$1 *)
count(table, p) == Cardinality({i \in DOMAIN table : table[i].point = p})

(* register, count > 0: Ok(()) under every strategy *)
on_dupe_ok(strategy) == "Ok"

(* register, count > 0: Ok(()) under Ensure and Override, Err(dupe) otherwise *)
on_dupe(strategy) == IF strategy \in {"Ensure", "Override"} THEN "Ok" ELSE "Dupe"

Outcome(table, result) == [table |-> table, result |-> result]

(* register: the transaction is rolled back when the point has a row, and
   otherwise inserts one row with status Pending and no star *)
register(table, registration) ==
    IF count(table, registration.point) > 0
        THEN Outcome(table, on_dupe(registration.strategy))
        ELSE Outcome(Append(table, Row(registration.point, registration.kind, "Pending", NoStar)),
                     "Ok")

(* whether Postgres accepts "DELETE FROM particles WHERE point IN [..]": the
   list of an IN is written in parentheses, so it does not *)
delete_statement_accepted == FALSE

(* whether Postgres accepts "UPDATE particles SET star=$1, WHERE parent=$2
   AND point_segment=$3": a comma before WHERE, so it does not *)
assign_star_statement_accepted == FALSE

RECURSIVE without(_, _)
without(table, points) ==
    IF table = <<>> THEN <<>>
    ELSE IF Head(table).point \in points
        THEN without(Tail(table), points)
        ELSE <<Head(table)>> \o without(Tail(table), points)

(* delete: the points the selector matched are put in one DELETE statement;
   no statement is run when the selector matched nothing *)
delete(table, list) ==
    IF list = {}
        THEN Outcome(table, "Ok")
        ELSE IF delete_statement_accepted
            THEN Outcome(without(table, list), "Ok")
            ELSE Outcome(table, "Err")

(* assign_star: one UPDATE of the row of the point *)
assign_star(table, p, star) ==
    IF assign_star_statement_accepted
        THEN Outcome([i \in DOMAIN table |->
                         IF table[i].point = p THEN [table[i] EXCEPT !.star = star]
                                               ELSE table[i]],
                     "Ok")
        ELSE Outcome(table, "Err")

Op(name, arg, result, before) == [name |-> name, arg |-> arg, result |-> result, before |-> before]

InitRegistryStore ==
    /\ InitStarIdle
    /\ InitHandshakeIdle
    /\ InitFrameIdle
    /\ InitLaneIdle
    /\ InitLocatorIdle
    /\ InitExtraIdle
    /\ particles = <<>>
    /\ last = Op("", <<>>, "", <<>>)
    /\ ops = 0

Register(registration) ==
    /\ ops < MaxOps
    /\ LET o == register(particles, registration)
       IN  /\ particles' = o.table
           /\ last' = Op("register", registration, o.result, particles)
    /\ ops' = ops + 1

(* the selector of a Delete: one point, with or without everything below it *)
matched(table, p, below) ==
    {table[i].point : i \in DOMAIN table} \cap
        {q \in Points : q = p \/ (below /\ Len(q) > Len(p) /\ SubSeq(q, 1, Len(p)) = p)}

Delete(p, below) ==
    /\ ops < MaxOps
    /\ LET o == delete(particles, matched(particles, p, below))
       IN  /\ particles' = o.table
           /\ last' = Op("delete", <<p, below>>, o.result, particles)
    /\ ops' = ops + 1

StoreRest == <<starVars, handshakeVars, frameVars, laneVars, locatorVars, extraVars>>

NextRegistry ==
    \/ \E p \in Points, k \in Kinds, st \in Strategies :
          Register(Registration(p, k, st)) /\ UNCHANGED StoreRest
    \/ \E p \in Points, below \in BOOLEAN :
          Delete(p, below) /\ UNCHANGED StoreRest

SpecRegistry == InitRegistryStore /\ [][NextRegistry]_vars

---------------------------------------------------------------------------
(* SpecRegistry: the claims *)

(* C19: a register of a point that has a row leaves the table as it was and
   returns Ok under Ensure and Override and Dupe under Commit; a register of
   a point that has no row returns Ok and leaves exactly one row for the
   point, with the rows that were there unchanged, under every strategy *)
C19_RegisterByStrategy ==
    last.name = "register" =>
        IF count(last.before, last.arg.point) > 0
            THEN /\ particles = last.before
                 /\ last.arg.strategy \in {"Ensure", "Override"} => last.result = "Ok"
                 /\ last.arg.strategy = "Commit" => last.result = "Dupe"
            ELSE /\ last.result = "Ok"
                 /\ count(particles, last.arg.point) = 1
                 /\ Len(particles) = Len(last.before) + 1
                 /\ SubSeq(particles, 1, Len(last.before)) = last.before

C19_Witness ==
    /\ last.name = "register"
    /\ last.arg.strategy = "Commit"
    /\ last.result = "Dupe"
    /\ count(last.before, last.arg.point) = 1
    /\ particles = last.before

(* C20: every row of a point below the first level has the row of its
   parent in the table *)
C20_ParentExists ==
    \A i \in DOMAIN particles :
        parent(particles[i].point) # Root => count(particles, parent(particles[i].point)) > 0

---------------------------------------------------------------------------
(* SpecLocator: callers of SmartLocator::locate for one point, the registry
   they read, and the star that answers their Provision requests
   (src/rust/cosmic/cosmic-hyperspace/src/star.rs 2011-2081).

   The handler of a Provision request is the driver of the parent's star:
   it places the particle on a star, asks the registry to assign_star and
   answers with the location, or answers with an error status. *)

MaxCalls == 2

Callers == {"c1", "c2"}
HostStar == "B"
PongStatus == {200, 500}

(* registry.record(point): the row of the point *)
record(table, p) == table[CHOOSE i \in DOMAIN table : table[i].point = p]

(* registry.set_status(point, status) *)
set_status(table, p, status) ==
    [i \in DOMAIN table |->
        IF table[i].point = p THEN [table[i] EXCEPT !.status = status] ELSE table[i]]

Caller(pc, p, stack, to, pong, n) ==
    [pc |-> pc, p |-> p, stack |-> stack, to |-> to, pong |-> pong, calls |-> n]

ReadEv(c, q, star, by) == [ev |-> "Read", caller |-> c, point |-> q, star |-> star, by |-> by]
ProvisionEv(c, q, to) == [ev |-> "Provision", caller |-> c, point |-> q, star |-> to, by |-> ""]
ReturnEv(c, q, star, by) == [ev |-> "Return", caller |-> c, point |-> q, star |-> star, by |-> by]

InitLocator ==
    /\ InitStarIdle
    /\ InitHandshakeIdle
    /\ InitFrameIdle
    /\ InitLaneIdle
    /\ InitExtraIdle
    /\ \E star \in {NoStar, HostStar} :
          particles = <<Row(<<"a">>, "App", "Ready", "A"),
                        Row(<<"a", "b">>, "App", "Pending", star),
                        Row(<<"a", "b", "c">>, "Mechtron", "Pending", NoStar)>>
    /\ last = <<>>
    /\ ops = 0
    /\ \E p \in {<<"a", "b">>, <<"a", "b", "c">>} :
          callers = [c \in Callers |-> Caller("idle", p, <<>>, "", 0, 0)]
    /\ requests = {}
    /\ events = <<>>

(* locate: the record is read; its star is returned when it has one, and
   provision(point) is entered when it has none *)
Locate(c) ==
    /\ callers[c].pc = "idle"
    /\ callers["c1"].calls + callers["c2"].calls < MaxCalls
    /\ LET p == callers[c].p
           star == record(particles, p).star
           read == ReadEv(c, p, star, "locate")
       IN  IF star # NoStar
               THEN /\ events' = events \o <<read, ReturnEv(c, p, star, "record")>>
                    /\ callers' = [callers EXCEPT ![c].calls = @ + 1]
               ELSE /\ events' = Append(events, read)
                    /\ callers' = [callers EXCEPT ![c].calls = @ + 1,
                                                  ![c].pc = "inner",
                                                  ![c].stack = <<p>>]
    /\ UNCHANGED <<particles, requests>>

(* a parent that is taken for provisioned whatever its record says *)
never_none(star) == FALSE

(* parent_record.location.star.is_none() *)
is_none(star) == star = NoStar

(* provision_inner(point): the parent's record is read; a parent with no
   star is provisioned first *)
ProvisionInner(c) ==
    /\ callers[c].pc = "inner"
    /\ LET q == Head(callers[c].stack)
           star == record(particles, parent(q)).star
       IN  /\ events' = Append(events, ReadEv(c, parent(q), star, "provision_inner"))
           /\ IF is_none(star)
                  THEN callers' = [callers EXCEPT ![c].stack = <<parent(q)>> \o @]
                  ELSE callers' = [callers EXCEPT ![c].pc = "send", ![c].to = star]
    /\ UNCHANGED <<particles, requests>>

(* provision_inner(point): the Provision ping goes to the Core of the
   parent's star, by star_transmitter.direct(wave) *)
SendProvision(c) ==
    /\ callers[c].pc = "send"
    /\ LET q == Head(callers[c].stack)
       IN  /\ requests' = requests \cup
                  {[caller |-> c, point |-> q,
                    to |-> with_layer(to_surface(callers[c].to), "Core")]}
           /\ events' = Append(events, ProvisionEv(c, q, callers[c].to))
    /\ callers' = [callers EXCEPT ![c].pc = "await"]
    /\ UNCHANGED particles

(* the parent's star answers a Provision request: the particle is placed on
   HostStar, the registry is asked to assign_star, and the pong carries the
   location with status 200, or an error status *)
AnswerProvision(req, status) ==
    /\ req \in requests
    /\ requests' = requests \ {req}
    /\ particles' = assign_star(particles, req.point, HostStar).table
    /\ callers' = [callers EXCEPT ![req.caller].pc = "pong", ![req.caller].pong = status]
    /\ UNCHANGED events

(* provision_inner(point) after the pong.  Status 200: Ok(location); the
   caller that was provisioning a parent reads the parent's record again and
   unwraps its star.  Any other status: set_status(point, Panic), the record
   is read for the message, and the error is returned through every `?`. *)
Pong(c) ==
    /\ callers[c].pc = "pong"
    /\ LET q == Head(callers[c].stack)
           rest == Tail(callers[c].stack)
       IN  IF callers[c].pong = 200
               THEN /\ UNCHANGED particles
                    /\ IF rest = <<>>
                           THEN /\ events' = Append(events, ReturnEv(c, q, HostStar, "provision"))
                                /\ callers' = [callers EXCEPT ![c].pc = "idle", ![c].stack = <<>>]
                           ELSE LET star == record(particles, q).star
                                IN  /\ events' = Append(events, ReadEv(c, q, star, "provision_inner"))
                                    /\ IF star = NoStar
                                           THEN callers' = [callers EXCEPT ![c].pc = "panicked",
                                                                           ![c].stack = rest]
                                           ELSE callers' = [callers EXCEPT ![c].pc = "send",
                                                                           ![c].stack = rest,
                                                                           ![c].to = star]
               ELSE /\ particles' = set_status(particles, q, "Panic")
                    /\ events' = events \o <<ReadEv(c, q, record(particles, q).star, "provision_inner"),
                                            ReturnEv(c, callers[c].p, NoStar, "error")>>
                    /\ callers' = [callers EXCEPT ![c].pc = "idle", ![c].stack = <<>>]
    /\ UNCHANGED requests

LocatorRest == <<starVars, handshakeVars, frameVars, laneVars, last, ops, extraVars>>

NextLocator ==
    \/ \E c \in Callers : Locate(c) /\ UNCHANGED LocatorRest
    \/ \E c \in Callers : ProvisionInner(c) /\ UNCHANGED LocatorRest
    \/ \E c \in Callers : SendProvision(c) /\ UNCHANGED LocatorRest
    \/ \E req \in requests, status \in PongStatus :
          AnswerProvision(req, status) /\ UNCHANGED LocatorRest
    \/ \E c \in Callers : Pong(c) /\ UNCHANGED LocatorRest

SpecLocator == InitLocator /\ [][NextLocator]_vars

---------------------------------------------------------------------------
(* SpecLocator: the claims *)

Located == callers["c1"].p

(* C16: a locate that reads a record with a star returns that star at once,
   with no Provision request; and once a locate has succeeded by
   provisioning, the star it returned is the star of the point's record, so
   that every later locate reads it from the record *)
C16_LocateInstallsLocation ==
    /\ \A i \in DOMAIN events :
          (events[i].ev = "Read" /\ events[i].by = "locate" /\ events[i].star # NoStar) =>
              /\ i < Len(events)
              /\ events[i + 1] = ReturnEv(events[i].caller, events[i].point, events[i].star, "record")
    /\ \A i \in DOMAIN events :
          (events[i].ev = "Return" /\ events[i].by = "provision") =>
              /\ record(particles, events[i].point).star = events[i].star
              /\ \A j \in DOMAIN events :
                    (j > i /\ events[j].ev = "Read" /\ events[j].by = "locate") =>
                        events[j].star = events[i].star

(* C17: once every locate of the point has completed, all the callers that
   were given a star were given the same star, and that star is the one
   location the point's record holds *)
C17_ConcurrentLocateAgrees ==
    (\A c \in Callers : callers[c].pc = "idle" /\ callers[c].calls > 0) =>
        \A i \in DOMAIN events :
            (events[i].ev = "Return" /\ events[i].by # "error") =>
                /\ \A j \in DOMAIN events :
                      (events[j].ev = "Return" /\ events[j].by # "error") =>
                          events[j].star = events[i].star
                /\ record(particles, Located).star = events[i].star

(* C18: between two successive reads of the point's record there is at most
   one Provision request for the point *)
C18_OneProvisionBetweenReads ==
    \A i \in DOMAIN events, j \in DOMAIN events :
        (/\ i < j
         /\ events[i].ev = "Read" /\ events[i].point = Located
         /\ events[j].ev = "Read" /\ events[j].point = Located
         /\ \A k \in (i + 1)..(j - 1) :
               ~(events[k].ev = "Read" /\ events[k].point = Located)) =>
            Cardinality({k \in (i + 1)..(j - 1) :
                            events[k].ev = "Provision" /\ events[k].point = Located}) <= 1

---------------------------------------------------------------------------
(* SpecStatus: PostgresRegistry::set_status on the rows of two particles,
   called through the registry API with any status, and by provision_inner
   when the Provision request of a particle fails
   (src/rust/cosmic/cosmic-registry-postgres/src/lib.rs 355-375,
    src/rust/cosmic/cosmic-hyperspace/src/star.rs 2056-2080). *)

Statuses == {"Unknown", "Pending", "Init", "Ready", "Panic", "Fatal"}

(* the place of a status in the lifecycle of a particle *)
lifecycle(status) ==
    CASE status = "Unknown" -> 0
      [] status = "Pending" -> 1
      [] status = "Init" -> 2
      [] status = "Ready" -> 3
      [] status = "Panic" -> 4
      [] status = "Fatal" -> 5

InitStatus ==
    /\ InitStarIdle
    /\ InitHandshakeIdle
    /\ InitFrameIdle
    /\ InitLaneIdle
    /\ InitLocatorIdle
    /\ InitExtraIdle
    /\ particles = <<Row(<<"a">>, "App", "Pending", "A"),
                    Row(<<"a", "b">>, "Mechtron", "Pending", NoStar)>>
    /\ last = Op("", <<>>, "", <<>>)
    /\ ops = 0

(* registry.set_status(point, status): one UPDATE of the row of the point *)
SetStatus(p, status) ==
    /\ ops < MaxOps
    /\ particles' = set_status(particles, p, status)
    /\ last' = Op("set_status", <<p, status>>, "Ok", particles)
    /\ ops' = ops + 1

(* provision_inner(point), the pong is not ok: set_status(point, Panic) *)
ProvisionFailed(p) ==
    /\ ops < MaxOps
    /\ particles' = set_status(particles, p, "Panic")
    /\ last' = Op("provision_inner", <<p, "Panic">>, "Err", particles)
    /\ ops' = ops + 1

NextStatus ==
    \/ \E p \in {<<"a">>, <<"a", "b">>}, status \in Statuses :
          SetStatus(p, status) /\ UNCHANGED StoreRest
    \/ \E p \in {<<"a">>, <<"a", "b">>} :
          ProvisionFailed(p) /\ UNCHANGED StoreRest

SpecStatus == InitStatus /\ [][NextStatus]_vars

(* C21: no step moves the status of a record to an earlier place in the
   lifecycle, except the steps between Ready and Panic; Unknown, which is
   no stage of the lifecycle, is left out of the comparison *)
C21_StatusMonotonic ==
    [][\A i \in DOMAIN particles :
          \/ lifecycle(particles'[i].status) >= lifecycle(particles[i].status)
          \/ {particles[i].status, particles'[i].status} = {"Ready", "Panic"}
          \/ "Unknown" \in {particles[i].status, particles'[i].status}]_vars

---------------------------------------------------------------------------
(* SpecProperties: PostgresRegistry::set_properties on the table
   `properties` of one particle
   (src/rust/cosmic/cosmic-registry-postgres/src/lib.rs 378-413).

   A row of the table is a key of the particle with its value and its lock;
   (resource_id, key) is unique.  A call runs the statements of its mods in
   one transaction, which is rolled back when a statement fails. *)

Keys == {"k1", "k2"}
Values == {"v", "true"}

Set(key, value, lock) == [mod |-> "Set", key |-> key, value |-> value, lock |-> lock]
UnSet(key) == [mod |-> "UnSet", key |-> key, value |-> "", lock |-> FALSE]
Mods == {Set(k, v, l) : k \in Keys, v \in Values, l \in BOOLEAN} \cup {UnSet(k) : k \in Keys}

PropertyRow(p, key, value, lock) == [point |-> p, key |-> key, value |-> value, lock |-> lock]

(* the rows of a key of a particle: none or one *)
property(table, p, key) == {r \in table : r.point = p /\ r.key = key}

(* whether Postgres accepts "INSERT INTO properties .. ON CONFLICT(resource_id,key)
   DO UPDATE SET value='..' WHERE lock=false": in the DO UPDATE part `lock`
   names a column of the row in the table and of the row proposed for
   insertion (excluded), so the reference is ambiguous and it does not *)
upsert_statement_accepted == FALSE

(* the text Postgres reads as a boolean, for the column `lock` *)
boolean_text == [true |-> TRUE, false |-> FALSE]
is_boolean(text) == text \in DOMAIN boolean_text

(* the lock of a Set as the statement writes it: 1 or 0 *)
lock_number(lock) == IF lock THEN "1" ELSE "0"

(* the statement of a Set: the format arguments are parent, point_segment,
   key, value, value, lock, so that the row proposed for insertion has the
   value in its column `lock`, and the update on conflict writes the lock
   number in the column `value` of a row whose lock is false *)
set_statement(table, p, mod) ==
    IF ~upsert_statement_accepted \/ ~is_boolean(mod.value)
        THEN Outcome(table, "Err")
        ELSE IF property(table, p, mod.key) = {}
            THEN Outcome(table \cup {PropertyRow(p, mod.key, mod.value, boolean_text[mod.value])},
                         "Ok")
            ELSE Outcome({IF r.point = p /\ r.key = mod.key /\ ~r.lock
                              THEN [r EXCEPT !.value = lock_number(mod.lock)]
                              ELSE r : r \in table},
                         "Ok")

(* the statement of an UnSet: DELETE .. WHERE resource_id=.. AND key=.. AND lock=false *)
unset_statement(table, p, mod) ==
    Outcome({r \in table : ~(r.point = p /\ r.key = mod.key /\ ~r.lock)}, "Ok")

RECURSIVE run_mods(_, _, _)
run_mods(table, p, mods) ==
    IF mods = <<>>
        THEN Outcome(table, "Ok")
        ELSE LET o == IF Head(mods).mod = "Set"
                          THEN set_statement(table, p, Head(mods))
                          ELSE unset_statement(table, p, Head(mods))
             IN  IF o.result = "Ok"
                     THEN run_mods(o.table, p, Tail(mods))
                     ELSE o

(* set_properties: the table after the call is the table after the last
   statement when all of them ran, and the table before when one failed *)
set_properties(table, p, mods) ==
    LET o == run_mods(table, p, mods)
    IN  IF o.result = "Ok" THEN o ELSE Outcome(table, "Err")

(* SetProperties is a map from keys to mods, iterated in some order *)
ModLists ==
    {<<m>> : m \in Mods} \cup
    {<<m, n>> : m \in {x \in Mods : x.key = "k1"}, n \in {x \in Mods : x.key = "k2"}} \cup
    {<<n, m>> : m \in {x \in Mods : x.key = "k1"}, n \in {x \in Mods : x.key = "k2"}}

InitProperties ==
    /\ InitStarIdle
    /\ InitHandshakeIdle
    /\ InitFrameIdle
    /\ InitLaneIdle
    /\ InitLocatorIdle
    /\ InitSearchIdle
    /\ InitMoreIdle
    /\ particles = <<Row(<<"a">>, "App", "Pending", NoStar)>>
    /\ last = Op("", <<>>, "", {})
    /\ ops = 0
    /\ properties = {}
    /\ access_grants = <<>>
    /\ sessions = <<>>

SetProperties(p, mods) ==
    /\ ops < MaxOps
    /\ LET o == set_properties(properties, p, mods)
       IN  /\ properties' = o.table
           /\ last' = Op("set_properties", [point |-> p, mods |-> mods], o.result, properties)
    /\ ops' = ops + 1
    /\ UNCHANGED <<particles, access_grants, sessions>>

PropertiesRest == <<starVars, handshakeVars, frameVars, laneVars, locatorVars, searchVars,
                    moreVars>>

NextProperties ==
    \E mods \in ModLists : SetProperties(<<"a">>, mods) /\ UNCHANGED PropertiesRest

SpecProperties == InitProperties /\ [][NextProperties]_vars

(* C22: after a set_properties call, a key that was stored with its lock
   set has the value and the lock it had, whatever the call's mod for it
   was; and a Set on a key that was not locked has stored the value and
   the lock of the Set *)
C22_LockedPropertyKept ==
    last.name = "set_properties" =>
        \A i \in DOMAIN last.arg.mods :
            LET mod == last.arg.mods[i]
                was == property(last.before, last.arg.point, mod.key)
            IN  IF \E r \in was : r.lock
                    THEN property(properties, last.arg.point, mod.key) = was
                    ELSE mod.mod = "Set" =>
                            property(properties, last.arg.point, mod.key) =
                                {PropertyRow(last.arg.point, mod.key, mod.value, mod.lock)}

---------------------------------------------------------------------------
(* SpecSequence: concurrent callers of PostgresRegistry::sequence for one
   particle (src/rust/cosmic/cosmic-registry-postgres/src/lib.rs 415-450).

   Each call is a transaction: UPDATE .. SET sequence=sequence+1, SELECT of
   the row, commit.  The UPDATE takes the lock of the row and keeps it until
   the transaction ends, so the UPDATE of another transaction waits for it
   and then counts from the committed value.  The column is an INTEGER,
   scaled here to IntegerBits bits: an UPDATE past its maximum fails. *)

IntegerBits == 3

IntegerMax == 2 ^ (IntegerBits - 1) - 1

SeqRow(p, sequence) == [point |-> p, sequence |-> sequence]
Session(pc, began, value) == [pc |-> pc, began |-> began, value |-> value]
Returned(c, began, value) == [caller |-> c, began |-> began, value |-> value]

(* SET sequence=sequence, a statement that does not count *)
next_sequence_same(sequence) == sequence

(* SET sequence=sequence+1 *)
next_sequence(sequence) == sequence + 1

(* the row is locked by a transaction that has updated it and has not ended *)
row_locked(ss, c) == \E d \in Callers \ {c} : ss[d].pc \in {"select", "commit"}

InitSequence ==
    /\ InitStarIdle
    /\ InitHandshakeIdle
    /\ InitFrameIdle
    /\ InitLaneIdle
    /\ InitLocatorIdle
    /\ InitSearchIdle
    /\ InitMoreIdle
    /\ particles = <<SeqRow(<<"a">>, 0)>>
    /\ last = <<>>
    /\ ops = 0
    /\ properties = <<>>
    /\ access_grants = <<>>
    /\ sessions = [c \in Callers |-> Session("idle", 0, 0)]

(* conn.begin(): `began` is the number of calls that had returned by then *)
BeginSequence(c) ==
    /\ sessions[c].pc = "idle"
    /\ sessions' = [sessions EXCEPT ![c] = Session("update", Len(last), 0)]
    /\ UNCHANGED <<particles, last>>

(* trans.execute(UPDATE ..): waits while the row is locked; the new value is
   seen by this transaction only, until it commits *)
UpdateSequence(c) ==
    /\ sessions[c].pc = "update"
    /\ ~row_locked(sessions, c)
    /\ LET v == next_sequence(particles[1].sequence)
       IN  IF v > IntegerMax
               THEN sessions' = [sessions EXCEPT ![c].pc = "idle"]
               ELSE sessions' = [sessions EXCEPT ![c].pc = "select", ![c].value = v]
    /\ UNCHANGED <<particles, last>>

(* SELECT DISTINCT sequence .. fetch_one(&mut trans): the row as this
   transaction wrote it *)
SelectSequence(c) ==
    /\ sessions[c].pc = "select"
    /\ sessions' = [sessions EXCEPT ![c].pc = "commit"]
    /\ UNCHANGED <<particles, last>>

(* trans.commit() *)
CommitSequence(c) ==
    /\ sessions[c].pc = "commit"
    /\ particles' = <<SeqRow(particles[1].point, sessions[c].value)>>
    /\ sessions' = [sessions EXCEPT ![c].pc = "return"]
    /\ UNCHANGED last

(* Ok(sequence.0) *)
ReturnSequence(c) ==
    /\ sessions[c].pc = "return"
    /\ last' = Append(last, Returned(c, sessions[c].began, sessions[c].value))
    /\ sessions' = [sessions EXCEPT ![c].pc = "idle"]
    /\ UNCHANGED particles

(* a statement or the commit fails: `?` returns the error and the dropped
   transaction is rolled back *)
FailSequence(c) ==
    /\ sessions[c].pc \in {"update", "select", "commit"}
    /\ sessions' = [sessions EXCEPT ![c].pc = "idle"]
    /\ UNCHANGED <<particles, last>>

SequenceRest == <<starVars, handshakeVars, frameVars, laneVars, locatorVars,
                  ops, properties, access_grants, searchVars, moreVars>>

NextSequence ==
    \/ \E c \in Callers : BeginSequence(c) /\ UNCHANGED SequenceRest
    \/ \E c \in Callers : UpdateSequence(c) /\ UNCHANGED SequenceRest
    \/ \E c \in Callers : SelectSequence(c) /\ UNCHANGED SequenceRest
    \/ \E c \in Callers : CommitSequence(c) /\ UNCHANGED SequenceRest
    \/ \E c \in Callers : ReturnSequence(c) /\ UNCHANGED SequenceRest
    \/ \E c \in Callers : FailSequence(c) /\ UNCHANGED SequenceRest

SpecSequence == InitSequence /\ [][NextSequence]_vars

(* C23: no two calls of sequence for the point returned the same value, and
   a call that began after another had returned was given a greater value *)
C23_SequenceAtomic ==
    \A i \in DOMAIN last, j \in DOMAIN last :
        i < j =>
            /\ last[i].value # last[j].value
            /\ last[j].began >= i => last[j].value > last[i].value

(* two calls overlapped and both returned, and a third call followed them *)
C23_Witness ==
    /\ Len(last) = 3
    /\ last[2].began = 0
    /\ last[1].began = 0
    /\ last[1].caller # last[2].caller
    /\ last[3].began = 2

---------------------------------------------------------------------------
(* SpecAccess: PostgresRegistry::grant, ::access and ::chown on the tables
   `particles` and `access_grants`
   (src/rust/cosmic/cosmic-registry-postgres/src/lib.rs 744-937).

   A row of `particles` is a point with its owner.  A grant has a kind
   (super, priv, or-mask, and-mask) with its data, the selectors on_point
   and to_point, and the particle that made it; its id is its serial
   number.  A selector is the point it starts from (its query_root), taken
   alone, or with everything below it.  Permissions and privileges are sets. *)

MaxGrants == 2

max_connections == 5

HyperUser == <<"hyperuser">>
User == <<"u">>
Principals == {HyperUser, <<"a">>, User}
Targets == {<<"a">>, <<"a", "b">>}

OwnedRow(p, o) == [point |-> p, owner |-> o]

Selector(root, below) == [root |-> root, below |-> below]
Exact(p) == Selector(p, FALSE)
SelfAndBelow(p) == Selector(p, TRUE)

(* Selector::query_root *)
query_root(selector) == selector.root

(* Selector::matches, on the hierarchy of a point *)
matches(selector, p) ==
    \/ p = selector.root
    \/ /\ selector.below
       /\ Len(p) > Len(selector.root)
       /\ SubSeq(p, 1, Len(selector.root)) = selector.root

AccessGrant(kind, data, on, to, by) ==
    [kind |-> kind, data |-> data, on_point |-> on, to_point |-> to, by_particle |-> by]
Indexed(id, g) ==
    [id |-> id, kind |-> g.kind, data |-> g.data, on_point |-> g.on_point,
     to_point |-> g.to_point, by_particle |-> g.by_particle]

Access(kind, privileges, permissions) ==
    [kind |-> kind, privileges |-> privileges, permissions |-> permissions]
Super == Access("Super", {}, {})
SuperOwner == Access("SuperOwner", {}, {})
Owner == Access("Owner", {}, {})
Enumerated(privileges, permissions) == Access("Enumerated", privileges, permissions)
AccessErr == Access("Err", {}, {})

(* Access::has_super and Access::has_full *)
has_super(access) == access.kind \in {"Super", "SuperOwner"}
has_full(access) == access.kind \in {"Super", "SuperOwner", "Owner"}

(* SELECT count > 0 FROM particles WHERE point=on AND owner=to *)
has_owner(table, to, on) == \E i \in DOMAIN table : table[i].point = on /\ table[i].owner = to

(* ctx.acquire(): the pool gives out max_connections connections; `held`
   are with the calls that wait for this one *)
acquire(held) == held < max_connections

(* the grants of a level of the walk: those whose query_root is the level,
   retained when to_point matches `to` and on_point matches `on` *)
level_grants(grants, to, on, traversal) ==
    SelectSeq(grants, LAMBDA g : /\ query_root(g.on_point) = traversal
                                 /\ matches(g.to_point, to)
                                 /\ matches(g.on_point, on))

(* the And masks of a level *)
level_ands(list) ==
    [i \in DOMAIN SelectSeq(list, LAMBDA g : g.kind = "and") |->
        SelectSeq(list, LAMBDA g : g.kind = "and")[i].data]

(* the And masks are left out *)
and_masks_none(permissions, levels) == permissions

(* level_ands.reverse(), then permissions.and(mask) for every mask of every level *)
RECURSIVE and_masks(_, _)
and_masks(permissions, levels) ==
    IF levels = <<>>
        THEN permissions
        ELSE LET level == levels[Len(levels)]
                 masked == {x \in permissions : \A i \in DOMAIN level : x \in level[i]}
             IN  and_masks(masked, SubSeq(levels, 1, Len(levels) - 1))

RECURSIVE access_held(_, _, _, _, _)
RECURSIVE for_grants(_, _, _, _, _, _, _)
RECURSIVE walk(_, _, _, _, _, _, _, _)

(* access(to, on), called while `held` connections of the pool are taken *)
access_held(table, grants, to, on, held) ==
    IF ~acquire(held)
        THEN AccessErr
        ELSE IF to = HyperUser
            THEN IF has_owner(table, to, on) THEN Super ELSE SuperOwner
            ELSE IF to = on /\ has_owner(table, to, on)
                THEN Owner
                ELSE IF ~acquire(held + 1)
                    THEN AccessErr
                    ELSE walk(table, grants, to, on, held + 1, on, Enumerated({}, {}), <<>>)

(* `for access_grant in &access_grants`: the access of the grantor on `on`
   is evaluated first, by a call of access while this call holds its
   connection *)
for_grants(table, grants, to, on, held, list, acc) ==
    IF list = <<>>
        THEN acc
        ELSE LET g == Head(list)
                 by_access == access_held(table, grants, g.by_particle, on, held)
             IN  IF by_access.kind = "Err"
                     THEN AccessErr
                     ELSE IF g.kind = "super" /\ has_super(by_access)
                         THEN IF has_owner(table, to, on) THEN SuperOwner ELSE Super
                         ELSE for_grants(table, grants, to, on, held, Tail(list),
                                 IF g.kind = "priv" /\ has_full(by_access)
                                     THEN Enumerated(acc.privileges \cup g.data, acc.permissions)
                                     ELSE IF g.kind = "or" /\ has_full(by_access)
                                         THEN Enumerated(acc.privileges, acc.permissions \cup g.data)
                                         ELSE acc)

(* the loop from `on` to the root, and what follows it *)
walk(table, grants, to, on, held, traversal, acc, ands) ==
    LET list == level_grants(grants, to, on, traversal)
        r == for_grants(table, grants, to, on, held, list, acc)
    IN  IF r.kind # "Enumerated"
            THEN r
            ELSE IF traversal # Root
                THEN walk(table, grants, to, on, held, parent(traversal), r,
                          Append(ands, level_ands(list)))
                ELSE IF has_owner(table, to, on)
                    THEN Owner
                    ELSE Enumerated(r.privileges,
                                    and_masks(r.permissions, Append(ands, level_ands(list))))

access(table, grants, to, on) == access_held(table, grants, to, on, 0)

(* grant: one INSERT; the id is the next of the serial *)
grant(grants, id, g) == Append(grants, Indexed(id, g))

(* the owners after the UPDATEs of a chown *)
set_owner(table, points, o) ==
    [i \in DOMAIN table |->
        IF table[i].point \in points THEN [table[i] EXCEPT !.owner = o] ELSE table[i]]

(* a chown that fails leaves the UPDATEs it has made *)
on_chown_error_keep(table, updated, o) == set_owner(table, updated, o)

(* `return Err(..)` in chown: the transaction is dropped, and rolled back *)
on_chown_error(table, updated, o) == table

(* chown: for every point of the selection, access(by, on) is evaluated on
   another connection, which does not see the UPDATEs of the transaction;
   `updated` are the points the transaction has updated so far *)
RECURSIVE chown(_, _, _, _, _, _)
chown(table, grants, list, o, by, updated) ==
    IF list = <<>>
        THEN Outcome(set_owner(table, updated, o), "Ok")
        ELSE IF ~has_super(access_held(table, grants, by, Head(list), 1))
            THEN Outcome(on_chown_error(table, updated, o), "Err")
            ELSE chown(table, grants, Tail(list), o, by, updated \cup {Head(list)})

(* the selections of a pattern, in the orders select may list them *)
Selections(table, pattern) ==
    LET sel == {t \in Targets : matches(pattern, t)}
    IN  {s \in UNION {[1..n -> sel] : n \in 0..Cardinality(sel)} :
            /\ Len(s) = Cardinality(sel)
            /\ \A i, j \in DOMAIN s : i # j => s[i] # s[j]}

Grants ==
    {AccessGrant(k[1], k[2], on, to, by) :
        k \in {<<"super", {}>>, <<"priv", {"p"}>>, <<"or", {"r", "w"}>>, <<"and", {"w"}>>},
        on \in {Exact(<<"a", "b">>), SelfAndBelow(<<"a">>)},
        to \in {Exact(User), SelfAndBelow(<<"a">>)},
        by \in {HyperUser, <<"a">>}}
Patterns == {Exact(<<"a", "b">>), SelfAndBelow(<<"a">>)}
Owners == {HyperUser, <<"a">>}

InitAccess ==
    /\ InitStarIdle
    /\ InitHandshakeIdle
    /\ InitFrameIdle
    /\ InitLaneIdle
    /\ InitLocatorIdle
    /\ InitSearchIdle
    /\ InitMoreIdle
    /\ \E o \in Owners :
          particles = <<OwnedRow(HyperUser, HyperUser), OwnedRow(User, HyperUser),
                        OwnedRow(<<"a">>, HyperUser), OwnedRow(<<"a", "b">>, o)>>
    /\ last = Op("", <<>>, "", <<>>)
    /\ ops = 0
    /\ properties = <<>>
    /\ access_grants = <<>>
    /\ sessions = <<>>

GrantAccess(g) ==
    /\ ops < MaxGrants
    /\ access_grants' = grant(access_grants, ops + 1, g)
    /\ ops' = ops + 1
    /\ UNCHANGED particles

Chown(pattern, o, by, list) ==
    /\ list \in Selections(particles, pattern)
    /\ particles' = chown(particles, access_grants, list, o, by, {}).table
    /\ UNCHANGED <<access_grants, ops>>

AccessRest == <<starVars, handshakeVars, frameVars, laneVars, locatorVars,
                properties, sessions, searchVars, moreVars>>

NextAccess ==
    \/ \E g \in Grants : GrantAccess(g) /\ UNCHANGED <<last, AccessRest>>
    \/ \E pattern \in Patterns, o \in Owners, by \in Principals :
          \E list \in Selections(particles, pattern) :
              Chown(pattern, o, by, list) /\ UNCHANGED <<last, AccessRest>>

SpecAccess == InitAccess /\ [][NextAccess]_vars

(* C24: the access of HyperUser on a particle is SuperOwner when HyperUser
   owns the particle, and Super when it does not *)
C24_HyperUserAccess ==
    \A on \in Targets :
        access(particles, access_grants, HyperUser, on) =
            IF has_owner(particles, HyperUser, on) THEN SuperOwner ELSE Super

(* the grants without the Privilege and Or-mask grants whose grantor has no
   full access on `on` *)
counting(table, grants, on) ==
    SelectSeq(grants, LAMBDA g :
        g.kind \in {"priv", "or"} => has_full(access(table, grants, g.by_particle, on)))

(* C25: access(to, on) is what it is without the Privilege and Or-mask
   grants of the grantors that have no full access on `on` *)
C25_GrantorNeedsFullAccess ==
    \A to \in Principals, on \in Targets :
        access(particles, access_grants, to, on) =
            access(particles, counting(particles, access_grants, on), to, on)

(* C26: when access(to, on) is an enumerated access, it has no permission
   that an And mask matching `to` and `on` clears, at whatever level of the
   walk the mask is and whatever the Or masks grant *)
C26_AndMasksAppliedLast ==
    \A to \in Principals, on \in Targets :
        LET r == access(particles, access_grants, to, on)
        IN  r.kind = "Enumerated" =>
                \A i \in DOMAIN access_grants :
                    (/\ access_grants[i].kind = "and"
                     /\ matches(access_grants[i].to_point, to)
                     /\ matches(access_grants[i].on_point, on)) =>
                        r.permissions \subseteq access_grants[i].data

(* an And mask at the level of a, made before an Or mask at the level of
   a:b that counts: the access has the permission the And mask leaves *)
C26_Witness ==
    /\ Len(access_grants) = 2
    /\ access_grants[1] = Indexed(1, AccessGrant("and", {"w"}, SelfAndBelow(<<"a">>),
                                                 Exact(User), <<"a">>))
    /\ access_grants[2] = Indexed(2, AccessGrant("or", {"r", "w"}, Exact(<<"a", "b">>),
                                                 Exact(User), HyperUser))
    /\ access(particles, access_grants, User, <<"a", "b">>) = Enumerated({}, {"w"})

(* what an access gives is within what another gives *)
contains(x, y) ==
    \/ y.kind = "Err"
    \/ has_full(y) /\ x = y
    \/ /\ y.kind = "Enumerated"
       /\ \/ has_full(x)
          \/ /\ x.kind = "Enumerated"
             /\ y.privileges \subseteq x.privileges
             /\ y.permissions \subseteq x.permissions

(* C27: a step that adds an Or-mask grant leaves every access containing
   what it contained; a step that adds an And-mask grant at `on` or above it
   leaves every access on `on` within what it was; and an access that was
   Super, SuperOwner or Owner is the same after either step *)
C27_GrantBoundary ==
    [][Len(access_grants') = Len(access_grants) + 1 =>
          LET g == access_grants'[Len(access_grants')]
          IN  \A to \in Principals, on \in Targets :
                  LET before == access(particles, access_grants, to, on)
                      after == access(particles', access_grants', to, on)
                  IN  /\ g.kind = "or" => contains(after, before)
                      /\ (g.kind = "and" /\ matches(SelfAndBelow(query_root(g.on_point)), on)) =>
                              contains(before, after)
                      /\ (g.kind \in {"or", "and"} /\ has_full(before)) => after = before]_vars

---------------------------------------------------------------------------
(* SpecOwnership: PostgresRegistry::chown and ::remove_access, with the
   grants that give a user super access on some particles
   (src/rust/cosmic/cosmic-registry-postgres/src/lib.rs 905-937, 985-1000).
   `last` is the last call, its result and the two tables before it. *)

Tables(table, grants) == [particles |-> table, access_grants |-> grants]

OwnershipGrants ==
    {AccessGrant("super", {}, Exact(<<"a", "b">>), Exact(User), HyperUser),
     AccessGrant("super", {}, SelfAndBelow(<<"a">>), Exact(User), HyperUser),
     AccessGrant("or", {"r", "w"}, Exact(<<"a", "b">>), Exact(User), <<"a">>)}

(* the rows of access_grants with an id: none or one *)
grant_of(grants, id) == {grants[i] : i \in {j \in DOMAIN grants : grants[j].id = id}}

(* remove_access, with no look at the access of the caller *)
may_revoke_any(by_access) == TRUE

(* remove_access: `if access.has_full()` *)
may_revoke(by_access) == has_full(by_access)

(* remove_access(id, to): the grant is fetched by its id, the access of `to`
   on the grantor is evaluated, and the row is deleted when it is full *)
remove_access(table, grants, id, to) ==
    IF grant_of(grants, id) = {}
        THEN Outcome(grants, "Err")
        ELSE LET g == CHOOSE x \in grant_of(grants, id) : TRUE
             IN  IF may_revoke(access_held(table, grants, to, g.by_particle, 1))
                     THEN Outcome(SelectSeq(grants, LAMBDA x : x.id # id), "Ok")
                     ELSE Outcome(grants, "Err")

InitOwnership ==
    /\ InitStarIdle
    /\ InitHandshakeIdle
    /\ InitFrameIdle
    /\ InitLaneIdle
    /\ InitLocatorIdle
    /\ InitSearchIdle
    /\ InitMoreIdle
    /\ \E o \in Owners :
          particles = <<OwnedRow(HyperUser, HyperUser), OwnedRow(User, HyperUser),
                        OwnedRow(<<"a">>, HyperUser), OwnedRow(<<"a", "b">>, o)>>
    /\ last = Op("", <<>>, "", Tables(<<>>, <<>>))
    /\ ops = 0
    /\ properties = <<>>
    /\ access_grants = <<>>
    /\ sessions = <<>>

RemoveAccess(id, to) ==
    /\ LET o == remove_access(particles, access_grants, id, to)
       IN  /\ access_grants' = o.table
           /\ last' = Op("remove_access", [id |-> id, to |-> to], o.result,
                         Tables(particles, access_grants))
    /\ UNCHANGED <<particles, ops>>

NextOwnership ==
    \/ \E g \in OwnershipGrants :
          /\ GrantAccess(g)
          /\ last' = Op("grant", g, "Ok", Tables(particles, access_grants))
          /\ UNCHANGED AccessRest
    \/ \E pattern \in Patterns, o \in Owners, by \in Principals :
          \E list \in Selections(particles, pattern) :
              /\ Chown(pattern, o, by, list)
              /\ last' = Op("chown", [pattern |-> pattern, owner |-> o, by |-> by, list |-> list],
                            chown(particles, access_grants, list, o, by, {}).result,
                            Tables(particles, access_grants))
              /\ UNCHANGED AccessRest
    \/ \E id \in 1..MaxGrants, to \in Principals :
          RemoveAccess(id, to) /\ UNCHANGED AccessRest

SpecOwnership == InitOwnership /\ [][NextOwnership]_vars

(* C28: a chown that returned Ok was called by a principal with super access
   on every particle its pattern selects, and has given them all the new
   owner; a chown by a principal that lacks super access on one of them
   returned an error and left the owner of every particle as it was *)
C28_ChownAllOrNothing ==
    last.name = "chown" =>
        LET selected == {t \in Targets : matches(last.arg.pattern, t)}
            supers == {t \in selected :
                          has_super(access(last.before.particles, last.before.access_grants,
                                           last.arg.by, t))}
        IN  IF supers = selected
                THEN /\ last.result = "Ok"
                     /\ particles = set_owner(last.before.particles, selected, last.arg.owner)
                ELSE /\ last.result = "Err"
                     /\ particles = last.before.particles

(* the user has super access on a:b and not on a; its chown of both, a:b
   listed first, failed *)
C28_Witness ==
    /\ last.name = "chown"
    /\ last.arg.by = User
    /\ last.arg.list = <<<<"a", "b">>, <<"a">>>>
    /\ has_super(access(last.before.particles, last.before.access_grants, User, <<"a", "b">>))
    /\ ~has_owner(last.before.particles, last.arg.owner, <<"a", "b">>)
    /\ last.result = "Err"

(* C29: the grants that were there before a call are there after it, except
   the grant whose id was given to a remove_access called by a principal
   with full access on the grantor of the grant; a remove_access called by
   a principal without it returned an error and left every grant in place *)
C29_GrantStaysUntilRevoked ==
    LET before == last.before.access_grants
    IN  /\ last.name \in {"grant", "chown"} =>
              SubSeq(access_grants, 1, Len(before)) = before
        /\ last.name = "remove_access" =>
              IF \E g \in grant_of(before, last.arg.id) :
                     has_full(access(last.before.particles, before, last.arg.to, g.by_particle))
                  THEN /\ last.result = "Ok"
                       /\ access_grants = SelectSeq(before, LAMBDA x : x.id # last.arg.id)
                  ELSE /\ last.result = "Err"
                       /\ access_grants = before

(* the user, whose super access on a comes from the first grant, has
   removed the second grant, which a had made *)
C29_Witness ==
    /\ last.name = "remove_access"
    /\ last.result = "Ok"
    /\ last.arg.to = User
    /\ last.arg.id = 2
    /\ Len(last.before.access_grants) = 2
    /\ last.before.access_grants[2].by_particle = <<"a">>
    /\ Len(access_grants) = 1
    /\ access_grants[1].id = 1

---------------------------------------------------------------------------
(* SpecSearch: the star of starlane that sends frames to one far star S:
   send_frame, the commit of a search for S and the release of the frames
   held meanwhile (src/rust/starlane/src/star.rs 357-412, 763-813).

   The star has a lane to each of its neighbours; a lane caches the hops to
   S that a search reported for it, 0 standing for no entry.  `lanes` is a
   HashMap, iterated in an order that the star does not choose. *)

MaxSends == 2

SearchLanes == {"B", "C", "D"}
HopCounts == {1, 2}
NoLane == ""

(* usize::MAX, scaled: above every hop count *)
usize_MAX == 2 ^ 16

(* LaneMeta::get_hops_to_star *)
get_hops_to_star(paths, l) == paths[l]

(* lane_with_shortest_path_to_star: the loop over `lanes`; min_hops is set
   before the loop and is not assigned in it *)
RECURSIVE shortest_loop(_, _, _, _)
shortest_loop(paths, order, min_hops, rtn) ==
    IF order = <<>>
        THEN rtn
        ELSE LET hops == get_hops_to_star(paths, Head(order))
             IN  IF hops # 0 /\ hops < min_hops
                     THEN shortest_loop(paths, Tail(order), min_hops, Head(order))
                     ELSE shortest_loop(paths, Tail(order), min_hops, rtn)

lane_with_shortest_path_to_star(paths, order) == shortest_loop(paths, order, usize_MAX, NoLane)

(* SearchResult.hits of a commit for S: the fewest hops of the lanes that hit *)
collapse(lane_hits) ==
    IF \A l \in SearchLanes : lane_hits[l] = 0
        THEN 0
        ELSE CHOOSE h \in HopCounts :
                /\ \E l \in SearchLanes : lane_hits[l] = h
                /\ \A l \in SearchLanes : lane_hits[l] # 0 => h <= lane_hits[l]

Hold(n, release) == [frames |-> n, release |-> release]

Orders == {o \in [1..Cardinality(SearchLanes) -> SearchLanes] :
              \A i, j \in DOMAIN o : i # j => o[i] # o[j]}

InitSearch ==
    /\ InitStarIdle
    /\ InitHandshakeIdle
    /\ InitFrameIdle
    /\ InitLaneIdle
    /\ InitStoreIdle
    /\ InitLocatorIdle
    /\ InitTablesIdle
    /\ InitMoreIdle
    /\ star_paths = [l \in SearchLanes |-> 0]
    /\ lane_order \in Orders
    /\ frame_hold = Hold(0, FALSE)
    /\ nearest = 0
    /\ sends = <<>>

(* send_frame(star, frame): on the lane found, or held while a search runs *)
SendFrame ==
    /\ Len(sends) + frame_hold.frames < MaxSends
    /\ LET l == lane_with_shortest_path_to_star(star_paths, lane_order)
       IN  IF l # NoLane
               THEN /\ sends' = Append(sends, l)
                    /\ UNCHANGED frame_hold
               ELSE /\ frame_hold' = Hold(frame_hold.frames + 1, frame_hold.release)
                    /\ UNCHANGED sends
    /\ UNCHANGED <<star_paths, lane_order, nearest>>

(* StarCommand::SearchLocalCommit: the hops of every lane that hit are put
   in the cache of the lane, and the result is sent to the one who searched;
   the task that waits for it asks for the release of the frames held *)
SearchLocalCommit(lane_hits) ==
    /\ star_paths' = [l \in SearchLanes |->
                         IF lane_hits[l] # 0 THEN lane_hits[l] ELSE star_paths[l]]
    /\ nearest' = IF collapse(lane_hits) # 0 THEN collapse(lane_hits) ELSE nearest
    /\ frame_hold' = Hold(frame_hold.frames, frame_hold.frames > 0)
    /\ UNCHANGED <<lane_order, sends>>

(* StarCommand::ReleaseHold: the frames held go out on the lane found; with
   no lane known they are not sent *)
ReleaseHold ==
    /\ frame_hold.release
    /\ LET l == lane_with_shortest_path_to_star(star_paths, lane_order)
       IN  IF l # NoLane
               THEN sends' = sends \o [i \in 1..frame_hold.frames |-> l]
               ELSE UNCHANGED sends
    /\ frame_hold' = Hold(0, FALSE)
    /\ UNCHANGED <<star_paths, lane_order, nearest>>

SearchRest == <<starVars, handshakeVars, frameVars, laneVars, storeVars, locatorVars, tableVars,
                moreVars>>

NextSearch ==
    \/ SendFrame /\ UNCHANGED SearchRest
    \/ \E lane_hits \in [SearchLanes -> {0} \cup HopCounts] :
          SearchLocalCommit(lane_hits) /\ UNCHANGED SearchRest
    \/ ReleaseHold /\ UNCHANGED SearchRest

SpecSearch == InitSearch /\ [][NextSearch]_vars

(* C30: once a search for S has been committed with h as its fewest hops,
   every frame sent to S goes on a lane whose cached hops to S are h, and
   on no lane caching more hops than another lane does *)
C30_ShortestLaneChosen ==
    [][(Len(sends') > Len(sends) /\ nearest # 0) =>
          LET l == sends'[Len(sends')]
          IN  /\ star_paths[l] = nearest
              /\ \A m \in SearchLanes : star_paths[m] # 0 => star_paths[l] <= star_paths[m]]_vars

----------------------------------------------------------------------------
(* SpecRetry: the reply table of the star of starlane and the delivery task
   of Star::message.  Clients hand proto-messages to the star; the star gives
   each an id of its sequence, registers a MessageReplyTracker under that id,
   spawns the task that waits for the reply and sends the frame.  The far
   star answers with Ok, Fail or Ack replies, or not at all.  Time is the
   count of waits that ran out (Elapsed); messages whose payload is an ack
   are not tracked and are left out. *)

MaxTimeouts == 21
MaxReplies == 1

Waiters == {"w1", "w2"}
Expects == {"None", "RetryUntilOk"}
Ids == 1..(Cardinality(Waiters) + MaxTimeouts \div 10)

(* broadcast::channel(8) of StarMessageDeliveryInsurance::new *)
channel_capacity == 8

(* MessageExpect::retries *)
retries(expect) ==
    CASE expect = "None" -> 1
      [] expect = "RetryUntilOk" -> 10

retry_never(expect) == FALSE

(* MessageExpect::retry_forever *)
retry_forever(expect) == expect = "RetryUntilOk"

(* IdSeq::next of info.sequence *)
next_id(seq) == seq + 1

ResultOf(result) == [update |-> "Result", result |-> result]
AckUpdate == [update |-> "Ack", result |-> ""]

(* ProtoMessage as far as the star reads it: the expectation, the sender of
   the broadcast channel (named by its waiter) and the receiver, which sees
   the updates sent after position rx *)
ProtoMessage(expect, tx, rx) == [expect |-> expect, tx |-> tx, rx |-> rx]

(* StarMessage::resubmit(expect, tx, rx): the same message as a proto-message
   again, with the channel of the delivery it comes from *)
resubmit(expect, tx, rx) == ProtoMessage(expect, tx, rx)

MessageReplyTracker(reply_to, tx) == [reply_to |-> reply_to, tx |-> tx]

(* StarMessageDeliveryInsurance in the hands of the spawned task *)
Delivery(id, proto) ==
    [id |-> id, expect |-> proto.expect, retries |-> retries(proto.expect),
     tx |-> proto.tx, rx |-> proto.rx, pc |-> "waiting"]

send(tx, update) == [updates EXCEPT ![tx] = Append(@, update)]

InitRetry ==
    /\ InitStarIdle
    /\ InitHandshakeIdle
    /\ InitFrameIdle
    /\ InitLaneIdle
    /\ InitStoreIdle
    /\ InitLocatorIdle
    /\ InitTablesIdle
    /\ InitSearchIdle
    /\ InitPumpIdle
    /\ InitMeshIdle
    /\ star_sequence = 0
    /\ message_reply_trackers = <<>>
    /\ deliveries = <<>>
    /\ command_rx = <<>>
    /\ updates = [w \in Waiters |-> <<>>]
    /\ outgoing = {}
    /\ timeouts = 0
    /\ replies = 0

Submitted(w) ==
    \/ \E i \in DOMAIN deliveries : deliveries[i].tx = w
    \/ \E i \in DOMAIN command_rx : command_rx[i].tx = w

(* a client sends StarCommand::SendProtoMessage to the star *)
Submit(w, expect) ==
    /\ ~Submitted(w)
    /\ command_rx' = Append(command_rx, ProtoMessage(expect, w, 0))
    /\ UNCHANGED <<star_sequence, message_reply_trackers, deliveries, updates,
                   outgoing, timeouts, replies>>

(* StarCommand::SendProtoMessage -> send_proto_message -> message: a fresh id,
   the tracker inserted under it, the task spawned, the frame sent *)
SendProtoMessage ==
    /\ command_rx # <<>>
    /\ LET proto == Head(command_rx)
           id == next_id(star_sequence)
       IN /\ star_sequence' = id
          /\ message_reply_trackers' =
                 [k \in DOMAIN message_reply_trackers \cup {id} |->
                     IF k = id THEN MessageReplyTracker(id, proto.tx)
                     ELSE message_reply_trackers[k]]
          /\ deliveries' = Append(deliveries, Delivery(id, proto))
          /\ outgoing' = outgoing \cup {id}
    /\ command_rx' = Tail(command_rx)
    /\ UNCHANGED <<updates, timeouts, replies>>

(* the task: delivery.rx.recv() returns before the wait runs out.  A Result
   ends the task, an Ack does not; a receiver that fell more than the
   capacity of the channel behind gets an error, which ends the task too *)
Recv(i) ==
    /\ i \in DOMAIN deliveries
    /\ LET d == deliveries[i]
       IN /\ d.pc = "waiting"
          /\ d.rx < Len(updates[d.tx])
          /\ deliveries' =
                 IF Len(updates[d.tx]) - d.rx > channel_capacity
                 THEN [deliveries EXCEPT ![i].pc = "done", ![i].rx = Len(updates[d.tx])]
                 ELSE IF updates[d.tx][d.rx + 1].update = "Result"
                 THEN [deliveries EXCEPT ![i].pc = "done", ![i].rx = d.rx + 1]
                 ELSE [deliveries EXCEPT ![i].rx = d.rx + 1]
    /\ UNCHANGED <<star_sequence, message_reply_trackers, command_rx, updates,
                   outgoing, timeouts, replies>>

(* the task: the wait ran out.  One retry less; at none left the message is
   resubmitted through the star (retry_forever) or the waiter gets Timeout,
   and the task ends; otherwise the same message is sent again *)
Elapsed(i) ==
    /\ i \in DOMAIN deliveries
    /\ timeouts < MaxTimeouts
    /\ timeouts' = timeouts + 1
    /\ LET d == deliveries[i]
       IN /\ d.pc = "waiting"
          /\ d.rx = Len(updates[d.tx])
          /\ IF d.retries - 1 = 0
             THEN /\ deliveries' = [deliveries EXCEPT ![i].retries = 0, ![i].pc = "done"]
                  /\ IF retry_forever(d.expect)
                     THEN /\ command_rx' =
                                 Append(command_rx,
                                        resubmit(d.expect, d.tx, Len(updates[d.tx])))
                          /\ UNCHANGED updates
                     ELSE /\ updates' = send(d.tx, ResultOf("Timeout"))
                          /\ UNCHANGED command_rx
                  /\ UNCHANGED outgoing
             ELSE /\ deliveries' = [deliveries EXCEPT ![i].retries = d.retries - 1]
                  /\ outgoing' = outgoing \cup {d.id}
                  /\ UNCHANGED <<command_rx, updates>>
    /\ UNCHANGED <<star_sequence, message_reply_trackers, replies>>

(* MessageReplyTracker::on_message: what is sent to the waiter, and whether
   the tracker is done *)
on_message(tracker, reply) ==
    CASE reply = "Ok" -> [update |-> ResultOf("Ok"), job |-> "Done"]
      [] reply = "Fail" -> [update |-> ResultOf("Err"), job |-> "Done"]
      [] reply = "Ack" -> [update |-> AckUpdate, job |-> "Continue"]

(* a reply to message id arrives: process_message_reply *)
Reply(id, reply) ==
    /\ id \in outgoing
    /\ replies < MaxReplies
    /\ replies' = replies + 1
    /\ IF id \in DOMAIN message_reply_trackers
       THEN LET tracker == message_reply_trackers[id]
                done == on_message(tracker, reply)
            IN /\ updates' = send(tracker.tx, done.update)
               /\ message_reply_trackers' =
                      IF done.job = "Done"
                      THEN [k \in DOMAIN message_reply_trackers \ {id} |->
                               message_reply_trackers[k]]
                      ELSE message_reply_trackers
       ELSE UNCHANGED <<updates, message_reply_trackers>>
    /\ UNCHANGED <<star_sequence, deliveries, command_rx, outgoing, timeouts>>

RetryRest == <<starVars, handshakeVars, frameVars, laneVars, storeVars, locatorVars,
               tableVars, searchVars, pumpVars, meshVars>>

NextRetry ==
    \/ \E w \in Waiters, expect \in Expects : Submit(w, expect) /\ UNCHANGED RetryRest
    \/ SendProtoMessage /\ UNCHANGED RetryRest
    \/ \E i \in Ids : Recv(i) /\ UNCHANGED RetryRest
    \/ \E i \in Ids : Elapsed(i) /\ UNCHANGED RetryRest
    \/ \E id \in Ids, reply \in {"Ok", "Fail", "Ack"} : Reply(id, reply) /\ UNCHANGED RetryRest

SpecRetry == InitRetry /\ [][NextRetry]_vars

(* The star handles its commands, the tasks it spawned run, and a wait that
   nothing answers runs out.  That a reply arrives is not assumed. *)
RetryFairness ==
    /\ WF_vars(SendProtoMessage /\ UNCHANGED RetryRest)
    /\ \A i \in Ids : WF_vars(Recv(i) /\ UNCHANGED RetryRest)
    /\ \A i \in Ids : WF_vars(Elapsed(i) /\ UNCHANGED RetryRest)

SpecRetryLive == SpecRetry /\ RetryFairness

----------------------------------------------------------------------------
(* SpecRetry: the claims *)

Forever(w) ==
    \/ \E i \in DOMAIN deliveries :
          deliveries[i].tx = w /\ deliveries[i].expect = "RetryUntilOk"
    \/ \E i \in DOMAIN command_rx :
          command_rx[i].tx = w /\ command_rx[i].expect = "RetryUntilOk"

Given(w, result) == \E k \in DOMAIN updates[w] : updates[w][k] = ResultOf(result)

Terminal(w) == \E k \in DOMAIN updates[w] : updates[w][k].update = "Result"

Submissions(w) == Cardinality({i \in DOMAIN deliveries : deliveries[i].tx = w})

Retrying(w) ==
    \/ \E i \in DOMAIN deliveries : deliveries[i].tx = w /\ deliveries[i].pc = "waiting"
    \/ \E i \in DOMAIN command_rx : command_rx[i].tx = w

FreshIds ==
    \A i, j \in DOMAIN deliveries : i # j => deliveries[i].id # deliveries[j].id

(* C31: a message sent with the retry-forever expectation (RetryUntilOk) is
   resubmitted again and again while no terminal result has arrived: its
   waiter is never given Timeout, every submission has an id no other
   submission has, retrying has stopped only if a terminal result was sent
   to the waiter, and as long as time goes on (the count of waits that ran
   out is below MaxTimeouts) the n-th submission without a terminal result
   is followed by another one or by a terminal result. *)
C31_RetryForever ==
    /\ [](\A w \in Waiters : Forever(w) => ~Given(w, "Timeout"))
    /\ []FreshIds
    /\ [](\A w \in Waiters : Forever(w) => Retrying(w) \/ Terminal(w))
    /\ \A w \in Waiters, n \in Ids :
          (Forever(w) /\ Submissions(w) = n /\ ~Terminal(w))
              ~> (Submissions(w) > n \/ Terminal(w) \/ timeouts = MaxTimeouts)

(* a retry-forever message on its third id, the first two timed out ten times
   each, no reply so far *)
C31_Witness ==
    \E w \in Waiters :
        /\ Forever(w)
        /\ Submissions(w) = 3
        /\ ~Terminal(w)
        /\ updates[w] = <<>>
        /\ Cardinality({deliveries[i].id : i \in {j \in DOMAIN deliveries :
                                                    deliveries[j].tx = w}}) = 3

Stale(id) ==
    /\ id \in DOMAIN message_reply_trackers
    /\ \E i \in DOMAIN deliveries : deliveries[i].id = id /\ deliveries[i].pc = "done"

(* C40: every entry of the reply table is removed in the end.  An entry whose
   message is no longer waited for, because its task gave the waiter Timeout
   or resubmitted the message under a fresh id, leaves the table. *)
C40_EntriesRemoved ==
    \A id \in Ids : Stale(id) ~> (id \notin DOMAIN message_reply_trackers)

----------------------------------------------------------------------------
(* SpecArrival: the router of SpecRouter with a peer that puts hops on the
   lane to star A one after the other, without waiting for the mesh to come
   to rest, so that several transports are on their way through the relay
   task, the pump and the tasks from_hyperway spawns at the same time. *)

MaxArrivals == 2

(* the hops the peer sends: fresh transports, to any star *)
ArrivalWaves(s, id) ==
    {w \in LaneWaves(s, id) : is_hop(w) /\ w.body[1].hops = 0}

Arrive(s) ==
    /\ emitted < MaxArrivals
    /\ \E w \in ArrivalWaves(s, emitted + 1) : lane' = [lane EXCEPT ![s] = Append(@, w)]
    /\ emitted' = emitted + 1
    /\ UNCHANGED <<adjacents, kinds, registry, calls, tasks, pump, log, layerVars, outerVars>>

(* The hops carry a Ping to a particle.  What they set off is the relay task,
   the FromHyperway arm of the pump (which forwards by calling to_hyperway
   itself), the spawned injections and the star driver at the Core; no call
   for another arm of the pump is sent on the way. *)
NextArrival ==
    \/ Arrive(Self)
    \/ \E s \in Stars : Relay(s)
    \/ \E s \in Stars : FromHyperway(s)
    \/ \E t \in tasks : RunInject(t)
    \/ \E t \in tasks : StarCore(t)

SpecArrival == InitRouter /\ [][NextArrival]_vars

(* star s started the layer traversal of transport t at position k of its log *)
InjectedAt(s, t, k) == log[s][k] = Event("Inject", t, injector(s), TRUE, <<>>)

(* C32: if transport T1 arrived on the lane to a star before transport T2 and
   both are addressed to that star, T1 is injected into the layer traversal
   before T2: T2's injection is never in the log without T1's before it. *)
C32_ArrivalOrderKept ==
    \A s \in Stars : \A i, j \in DOMAIN log[s] :
        (/\ i < j
         /\ IsArrival(s, i) /\ IsArrival(s, j)
         /\ to_single(Arrived(s, i)).point = s
         /\ to_single(Arrived(s, j)).point = s)
        => \A l \in DOMAIN log[s] :
              InjectedAt(s, Arrived(s, j), l)
                  => \E k \in 1..(l - 1) : InjectedAt(s, Arrived(s, i), k)

----------------------------------------------------------------------------
(* SpecPump: the pump of one HyperStar and its own queue.  HyperStarTx::new
   makes the queue with mpsc::channel(1024); here it holds CallCapacity calls.
   Particles send waves to gravity_tx, a relay task turns each into a
   ToGravity call, and the pump, handling ToGravity, sends a Shard call to the
   queue it reads from.  A send on a full queue waits for room. *)

CallCapacity == 2
MaxWaves == 4

PumpCall(op, id, to) == [op |-> op, id |-> id, to |-> to]

Idle == PumpCall("", 0, "")

InitPump ==
    /\ InitStarIdle
    /\ InitHandshakeIdle
    /\ InitFrameIdle
    /\ InitLaneIdle
    /\ InitStoreIdle
    /\ InitLocatorIdle
    /\ InitTablesIdle
    /\ InitSearchIdle
    /\ InitReplyIdle
    /\ InitMeshIdle
    /\ gravity_rx = <<>>
    /\ call_rx = <<>>
    /\ pump_at = Idle
    /\ handled = <<>>
    /\ waves = 0

(* a particle sends a wave out: to GLOBAL::executor or to a particle *)
SendToGravity(to) ==
    /\ waves < MaxWaves
    /\ waves' = waves + 1
    /\ gravity_rx' = Append(gravity_rx, PumpCall("ToGravity", waves + 1, to))
    /\ UNCHANGED <<call_rx, pump_at, handled>>

(* is there room in the queue: Sender::send returns only then *)
has_room(queue) == Len(queue) < CallCapacity

(* the relay task of HyperStarTx::new: gravity_rx -> call_tx *)
RelayGravity ==
    /\ gravity_rx # <<>>
    /\ has_room(call_rx)
    /\ call_rx' = Append(call_rx, Head(gravity_rx))
    /\ gravity_rx' = Tail(gravity_rx)
    /\ UNCHANGED <<pump_at, handled, waves>>

(* HyperStar::start: self.star_rx.recv() *)
PumpRecv ==
    /\ pump_at = Idle
    /\ call_rx # <<>>
    /\ pump_at' = Head(call_rx)
    /\ call_rx' = Tail(call_rx)
    /\ UNCHANGED <<gravity_rx, handled, waves>>

(* the ToGravity arm, to_gravity: a wave to GLOBAL::executor goes to the
   spawned global handler, any other is sent on as a Shard call *)
PumpToGravity ==
    /\ pump_at.op = "ToGravity"
    /\ IF pump_at.to = GLOBAL_EXEC
       THEN UNCHANGED call_rx
       ELSE /\ has_room(call_rx)
            /\ call_rx' = Append(call_rx, PumpCall("Shard", pump_at.id, pump_at.to))
    /\ handled' = Append(handled, pump_at)
    /\ pump_at' = Idle
    /\ UNCHANGED <<gravity_rx, waves>>

(* the Shard arm: shard() sends nothing to the queue of the pump *)
PumpShard ==
    /\ pump_at.op = "Shard"
    /\ handled' = Append(handled, pump_at)
    /\ pump_at' = Idle
    /\ UNCHANGED <<gravity_rx, call_rx, waves>>

PumpRest == <<starVars, handshakeVars, frameVars, laneVars, storeVars, locatorVars,
              tableVars, searchVars, replyVars, meshVars>>

NextPump ==
    \/ \E to \in {GLOBAL_EXEC, "p1"} : SendToGravity(to) /\ UNCHANGED PumpRest
    \/ RelayGravity /\ UNCHANGED PumpRest
    \/ PumpRecv /\ UNCHANGED PumpRest
    \/ PumpToGravity /\ UNCHANGED PumpRest
    \/ PumpShard /\ UNCHANGED PumpRest

SpecPump == InitPump /\ [][NextPump]_vars

(* C33: the pump never blocks on its own queue.  Whenever it is in to_gravity
   with a wave it has to send on as a Shard call, the queue has room for the
   call, whatever is pending in it. *)
C33_PumpNeverBlocks ==
    (pump_at.op = "ToGravity" /\ pump_at.to # GLOBAL_EXEC) => has_room(call_rx)

----------------------------------------------------------------------------
(* SpecMux: the mux loop of a mounted lane with its stream read byte by byte.
   The peer frames its payloads with to_stream (SpecFrame); the loop selects
   over self.rx.recv(), self.stream.read_wave() and self.terminate_rx.recv()
   (SpecLane).  read_wave is from_stream: what it has read so far, the size
   and the bytes in `data`, lives in the future the select polls, and the
   select drops that future when another branch completes first; the next
   turn of the loop starts from_stream anew at the byte the stream is at. *)

MuxPayloads == {<<"x">>, <<"x", "y">>}

InitMux ==
    /\ InitStarIdle
    /\ InitStoreIdle
    /\ InitLocatorIdle
    /\ InitExtraIdle
    /\ InitHandshakeIdle
    /\ outbox \in {<<b, c>> : b \in MuxPayloads, c \in MuxPayloads}
    /\ wr = Writer(1, "prefix", 0)
    /\ stream = <<>>
    /\ rd = Reader("size", 0, 0, <<>>)
    /\ frames = <<>>
    /\ mux = Mux("select", "")
    /\ net_in = <<>>
    /\ net_out = <<>>
    /\ in_ch = <<>>
    /\ out_ch = <<>>
    /\ endpoint = "mounted"
    /\ terminate = FALSE
    /\ serve = Serve("ok", 0, <<"Knock">>, "accept", TRUE)
    /\ produced = [peer |-> 0, out |-> 0]

(* the future of read_wave is dropped: its locals go with it *)
drop_read(reader) == Reader("size", 0, 0, <<>>)

(* read_wave returned a frame in this step: the loop goes on to send it *)
returned_frame ==
    mux' = IF Len(frames') > Len(frames)
               THEN Mux("sending", frames'[Len(frames')])
               ELSE mux

MuxLaneKept == <<net_in, net_out, in_ch, out_ch, endpoint, terminate, serve, produced>>

(* select!: read_wave is polled and reads the length prefix *)
MuxReadSize ==
    /\ mux.pc = "select"
    /\ ReadSize
    /\ returned_frame
    /\ UNCHANGED MuxLaneKept

(* select!: read_wave is polled and reads k bytes of the payload *)
MuxReadBuf(k) ==
    /\ mux.pc = "select"
    /\ ReadBuf(k)
    /\ returned_frame
    /\ UNCHANGED MuxLaneKept

(* select!: self.rx.recv() completes first *)
MuxRecvFirst ==
    /\ MuxRecv
    /\ rd' = drop_read(rd)
    /\ UNCHANGED <<outbox, wr, stream, frames>>

(* select!: self.rx.recv() completes first with None, the endpoint is gone *)
MuxRecvNoneFirst ==
    /\ MuxRecvNone
    /\ rd' = drop_read(rd)
    /\ UNCHANGED <<outbox, wr, stream, frames>>

(* select!: self.terminate_rx.recv() completes first *)
MuxTerminatedFirst ==
    /\ MuxTerminated
    /\ rd' = drop_read(rd)
    /\ UNCHANGED <<outbox, wr, stream, frames>>

MuxRest == <<starVars, handshakeVars, storeVars, locatorVars, extraVars>>

NextMux ==
    \/ WritePrefix /\ UNCHANGED laneVars /\ UNCHANGED MuxRest
    \/ WriteByte /\ UNCHANGED laneVars /\ UNCHANGED MuxRest
    \/ Flush /\ UNCHANGED laneVars /\ UNCHANGED MuxRest
    \/ MuxReadSize /\ UNCHANGED MuxRest
    \/ \E k \in 1..MaxPayload : MuxReadBuf(k) /\ UNCHANGED MuxRest
    \/ MuxRecvFirst /\ UNCHANGED MuxRest
    \/ MuxRecvNoneFirst /\ UNCHANGED MuxRest
    \/ MuxTerminatedFirst /\ UNCHANGED MuxRest
    \/ MuxWritten /\ UNCHANGED frameVars /\ UNCHANGED MuxRest
    \/ MuxSent /\ UNCHANGED frameVars /\ UNCHANGED MuxRest
    \/ Outbound /\ UNCHANGED frameVars /\ UNCHANGED MuxRest
    \/ Drain /\ UNCHANGED frameVars /\ UNCHANGED MuxRest
    \/ Disconnect /\ UNCHANGED frameVars /\ UNCHANGED MuxRest

SpecMux == InitMux /\ [][NextMux]_vars

(* C34: while the loop reads and writes, every frame the peer sent is
   delivered whole, once and in the order sent.  The frames read_wave has
   returned are the payloads the peer wrote, in order; the reader never finds
   payload bytes where a length prefix should be; and as long as no terminate
   signal was sent, once everything written is read every payload has been
   returned. *)
C34_FramesSurviveSelect ==
    /\ rd.pc # "lost"
    /\ Len(frames) <= Len(outbox)
    /\ \A i \in DOMAIN frames : frames[i].data = outbox[i]
    /\ (/\ ~terminate
        /\ wr.i > Len(outbox)
        /\ stream = <<>>
        /\ rd.pc = "size")
       => Len(frames) = Len(outbox)

----------------------------------------------------------------------------
(* SpecMesh: star discovery over a mesh of stars (starlane/src/star.rs).

   A caller asks a star to search for a pattern.  The star opens a
   StarSearchTransaction and broadcasts a StarSearch frame; every star the
   frame reaches answers at once or opens a transaction of its own,
   rebroadcasts and answers when its transaction commits.  A commit writes
   the hits of every lane into that lane's star_paths, and send_frame picks
   its lane from those tables. *)

MAX_HOPS == 16

MaxSearches == 1

MeshKinds ==
    [s \in Stars |-> CASE s = "A" -> "Supervisor"
                       [] s = "B" -> "Mesh"
                       [] s = "C" -> "Server"
                       [] OTHER   -> "Store"]

(* StarKind::relay *)
relay(kind) == kind \in {"Mesh", "Server", "Gateway", "Client", "Link"}

StarKeyPattern(s) == [type |-> "StarKey", value |-> s]

StarKindPattern(kind) == [type |-> "StarKind", value |-> kind]

MeshPatterns ==
    {StarKeyPattern(s) : s \in Stars} \cup {StarKindPattern("Supervisor"), StarKindPattern("Server")}

(* the match on search.pattern that opens do_search_with_hops and
   on_star_search_hop *)
is_hit(s, pattern) ==
    IF pattern.type = "StarKey" THEN s = pattern.value ELSE MeshKinds[s] = pattern.value

(* StarSearchPattern::is_single_match: a key names one star, a kind many *)
is_single_match(pattern) == pattern.type = "StarKey"

(* the meshes searched: B with three lanes, a line, a ring of A, B and C with
   D behind C, and two stars with the other two not yet joined *)
Spokes == {{"B", "A"}, {"B", "C"}, {"B", "D"}}

Pair == {{"A", "B"}}

Meshes == {Spokes, Line, Ring, Pair}

(* the maps `lanes` a mesh gives its stars, in every iteration order *)
LanesOf(E) ==
    {f \in [Stars -> UNION {Perms(AdjOf(E)[s]) : s \in Stars}] :
        \A s \in Stars : f[s] \in Perms(AdjOf(E)[s])}

LaneSet(s) == {star_lanes[s][i] : i \in DOMAIN star_lanes[s]}

MinOf(S) == CHOOSE x \in S : \A y \in S : x <= y

StarSearch(from, pattern, hops, txs, max_hops) ==
    [type |-> "StarSearch", from |-> from, pattern |-> pattern, hops |-> hops,
     transactions |-> txs, max_hops |-> max_hops]

(* `by` is not a field of the frame: it names the place that built it *)
StarSearchResult(hops, hits, txs, by) ==
    [type |-> "StarSearchResult", hops |-> hops, hits |-> hits, transactions |-> txs, by |-> by]

NoSearch == StarSearch(NoStar, StarKeyPattern(NoStar), <<>>, <<>>, 0)

(* the oneshot sender a transaction answers on: the caller of Search, or the
   task on_star_search_hop spawned for the search that arrived *)
Requester(for, search) == [for |-> for, search |-> search]

(* StarSearchTransaction::new.  `requester`, `asked`, `reported` and
   `returned` are not fields of the transaction: they keep who it answers,
   the stars it broadcast to, the lanes whose frames it counted and the
   results sent back for it.  `done` stands for transactions.remove(tid): ids
   are not handed out twice. *)
StarSearchTransaction(pattern, tx, lanes, local_hit, asked) ==
    [pattern |-> pattern, reported_lane_count |-> 0, lanes |-> lanes, hits |-> <<>>,
     tx |-> <<tx>>, local_hit |-> local_hit, done |-> FALSE,
     requester |-> tx, asked |-> asked, reported |-> <<>>, returned |-> <<>>]

(* StarSearchTransaction::collapse *)
collapse_hits(hits, local_hit) ==
    LET stars == UNION {DOMAIN hits[l] : l \in DOMAIN hits}
        least(s) == MinOf({hits[l][s] : l \in {k \in DOMAIN hits : s \in DOMAIN hits[k]}})
        all == stars \cup (IF local_hit = NoStar THEN {} ELSE {local_hit})
    IN  [s \in all |-> IF s = local_hit THEN 0 ELSE least(s)]

(* LaneMeta::get_hops_to_star for every lane of s: one hop to the lane's own
   remote star, else what star_paths holds *)
hops_by_lane(s, star) ==
    [l \in Stars |-> IF l \notin LaneSet(s) THEN 0
                     ELSE IF l = star THEN 1
                     ELSE lane_paths[s][l][star]]

(* the lane send_frame finds for star *)
lane_to(s, star) == lane_with_shortest_path_to_star(hops_by_lane(s, star), star_lanes[s])

(* send_frame: with no lane the frame is held and a search begun *)
send_frame(flight, s, star, frame) ==
    LET l == lane_to(s, star)
    IN  IF l = NoLane THEN flight ELSE [flight EXCEPT ![<<s, l>>] = Append(@, frame)]

(* broadcast_excluding *)
RECURSIVE broadcast_loop(_, _, _, _)
broadcast_loop(flight, s, stars, frame) ==
    IF stars = <<>>
        THEN flight
        ELSE broadcast_loop(send_frame(flight, s, Head(stars), frame), s, Tail(stars), frame)

broadcast_excluding(flight, s, frame, exclude) ==
    broadcast_loop(flight, s, SelectSeq(star_lanes[s], LAMBDA star : star \notin exclude), frame)

InitMesh ==
    /\ InitStarIdle
    /\ InitHandshakeIdle
    /\ InitFrameIdle
    /\ InitLaneIdle
    /\ InitStoreIdle
    /\ InitLocatorIdle
    /\ InitTablesIdle
    /\ InitSearchIdle
    /\ InitReplyIdle
    /\ InitPumpIdle
    /\ star_lanes \in UNION {LanesOf(E) : E \in Meshes}
    /\ lane_paths = [s \in Stars |-> [l \in Stars |-> [star \in Stars |-> 0]]]
    /\ transactions = [s \in Stars |-> <<>>]
    /\ sequences = [s \in Stars |-> 0]
    /\ in_flight = [p \in Stars \X Stars |-> <<>>]
    /\ star_commands = [s \in Stars |-> <<>>]
    /\ search_results = [s \in Stars |-> <<>>]
    /\ searches = 0

MeshRest == <<starVars, handshakeVars, frameVars, laneVars, storeVars, locatorVars,
              tableVars, searchVars, replyVars, pumpVars>>

(* info.sequence.next(): an id no other star hands out *)
next_tid(s) == <<s, sequences[s] + 1>>

(* do_search_with_hops *)
do_search_with_hops(flight, s, search, tx, exclude) ==
    LET hit == is_hit(s, search.pattern)
        tid == next_tid(s)
        asked == SelectSeq(star_lanes[s], LAMBDA star : star \notin exclude)
        transaction == StarSearchTransaction(search.pattern, tx,
                           Len(star_lanes[s]) - Cardinality(exclude),
                           IF hit THEN s ELSE NoStar, asked)
        out == [search EXCEPT !.transactions = Append(@, tid), !.hops = Append(@, s)]
    IN  /\ sequences' = [sequences EXCEPT ![s] = @ + 1]
        /\ transactions' = [transactions EXCEPT ![s] = (tid :> transaction) @@ @]
        /\ in_flight' = broadcast_excluding(flight, s, out, exclude)

(* StarCommand::SearchInit: do_search *)
SearchInit(s, pattern) ==
    /\ searches < MaxSearches
    /\ searches' = searches + 1
    /\ do_search_with_hops(in_flight, s, StarSearch(s, pattern, <<>>, <<>>, MAX_HOPS),
                           Requester("caller", NoSearch), {})
    /\ UNCHANGED <<star_lanes, lane_paths, star_commands, search_results, MeshRest>>

(* on_star_search_hop, for the StarSearch frame at the head of lane from -> s *)
on_star_search_hop(s, from) ==
    /\ in_flight[<<from, s>>] # <<>>
    /\ Head(in_flight[<<from, s>>]).type = "StarSearch"
    /\ LET search == Head(in_flight[<<from, s>>])
           rest == [in_flight EXCEPT ![<<from, s>>] = Tail(@)]
           hit == is_hit(s, search.pattern)
           answer(hits, by) ==
               /\ in_flight' = [rest EXCEPT ![<<s, from>>] =
                      Append(@, StarSearchResult(search.hops, hits, search.transactions, by))]
               /\ UNCHANGED <<sequences, transactions>>
       IN  IF hit /\ is_single_match(search.pattern)
             THEN answer(s :> (Len(search.hops) + 1), "hit")
           ELSE IF search.max_hops > MAX_HOPS
             THEN in_flight' = rest /\ UNCHANGED <<sequences, transactions>>
           ELSE IF \/ Len(search.hops) + 1 > search.max_hops
                   \/ Len(star_lanes[s]) <= 1
                   \/ ~relay(MeshKinds[s])
             THEN answer(IF hit THEN s :> Len(search.hops) ELSE <<>>, "leaf")
           ELSE do_search_with_hops(rest, s, search, Requester("relay", search), {from})
    /\ UNCHANGED <<star_lanes, lane_paths, star_commands, search_results, searches, MeshRest>>

(* StarSearchTransaction::on_frame and commit *)
on_frame(t, tid, result, from) ==
    LET counted == [t EXCEPT !.hits = (from :> result.hits) @@ @,
                             !.reported_lane_count = @ + 1,
                             !.reported = Append(@, from)]
        full == counted.reported_lane_count >= counted.lanes
        commits == full /\ counted.tx # <<>>
    IN  [transaction |-> IF full
                           THEN [counted EXCEPT !.done = TRUE,
                                                !.tx = IF commits THEN Tail(@) ELSE @]
                           ELSE counted,
         commands |-> IF commits
                        THEN <<[type |-> "SearchLocalCommit", tid |-> tid, tx |-> Head(counted.tx),
                                result |-> [hits |-> collapse_hits(counted.hits, counted.local_hit),
                                            lane_hits |-> counted.hits]]>>
                        ELSE <<>>]

(* process_frame for the StarSearchResult at the head of lane from -> s:
   process_transactions, then on_star_search_result, which does nothing *)
process_transactions(s, from) ==
    /\ in_flight[<<from, s>>] # <<>>
    /\ Head(in_flight[<<from, s>>]).type = "StarSearchResult"
    /\ LET result == Head(in_flight[<<from, s>>])
           tid == IF result.transactions = <<>> THEN <<>>
                  ELSE result.transactions[Len(result.transactions)]
           known == tid \in DOMAIN transactions[s] /\ ~transactions[s][tid].done
           o == on_frame(transactions[s][tid], tid, result, from)
       IN  /\ in_flight' = [in_flight EXCEPT ![<<from, s>>] = Tail(@)]
           /\ IF known
                THEN /\ transactions' = [transactions EXCEPT ![s][tid] = o.transaction]
                     /\ star_commands' = [star_commands EXCEPT ![s] = @ \o o.commands]
                ELSE UNCHANGED <<transactions, star_commands>>
    /\ UNCHANGED <<star_lanes, lane_paths, sequences, search_results, searches, MeshRest>>

(* StarCommand::SearchLocalCommit, and the task that waits on the oneshot *)
LocalCommit(s) ==
    /\ star_commands[s] # <<>>
    /\ Head(star_commands[s]).type = "SearchLocalCommit"
    /\ LET commit == Head(star_commands[s])
           lane_hits == commit.result.lane_hits
           hits == commit.result.hits
           search == commit.tx.search
           return_results ==
               [type |-> "SearchReturnResult", tid |-> commit.tid,
                result |-> StarSearchResult(search.hops,
                                            [star \in DOMAIN hits |-> hits[star] + 1],
                                            search.transactions, "relay")]
       IN  /\ lane_paths' = [lane_paths EXCEPT ![s] =
                  [l \in Stars |-> [star \in Stars |->
                      IF l \in DOMAIN lane_hits /\ star \in DOMAIN lane_hits[l]
                        THEN lane_hits[l][star]
                        ELSE @[l][star]]]]
           /\ IF commit.tx.for = "caller"
                THEN /\ search_results' = [search_results EXCEPT ![s] = Append(@, hits)]
                     /\ star_commands' = [star_commands EXCEPT ![s] = Tail(@)]
                ELSE /\ star_commands' = [star_commands EXCEPT ![s] = Append(Tail(@), return_results)]
                     /\ UNCHANGED search_results
    /\ UNCHANGED <<star_lanes, transactions, sequences, in_flight, searches, MeshRest>>

(* StarCommand::SearchReturnResult *)
SearchReturnResult(s) ==
    /\ star_commands[s] # <<>>
    /\ Head(star_commands[s]).type = "SearchReturnResult"
    /\ LET command == Head(star_commands[s])
           result == command.result
           back == result.hops[Len(result.hops)]
       IN  /\ in_flight' = send_frame(in_flight, s, back, result)
           /\ transactions' = [transactions EXCEPT ![s][command.tid].returned =
                  Append(@, [on |-> lane_to(s, back), hits |-> result.hits])]
    /\ star_commands' = [star_commands EXCEPT ![s] = Tail(@)]
    /\ UNCHANGED <<star_lanes, lane_paths, sequences, search_results, searches, MeshRest>>

NextMesh ==
    \/ \E s \in Stars, pattern \in MeshPatterns : SearchInit(s, pattern)
    \/ \E s, from \in Stars : on_star_search_hop(s, from)
    \/ \E s, from \in Stars : process_transactions(s, from)
    \/ \E s \in Stars : LocalCommit(s)
    \/ \E s \in Stars : SearchReturnResult(s)

SpecMesh == InitMesh /\ [][NextMesh]_vars

----------------------------------------------------------------------------
(* What the stars of the mesh answer, send back and cache *)

RangeOf(q) == {q[i] : i \in DOMAIN q}

(* the frames on the lanes, each as its lane and its place in the lane *)
OnLanes == UNION {{<<p, i>> : i \in DOMAIN in_flight[p]} : p \in Stars \X Stars}

(* the transactions a star opened for a search that arrived on a lane *)
RelayTransactions ==
    UNION {{<<s, tid>> : tid \in {k \in DOMAIN transactions[s] :
                                      transactions[s][k].requester.for = "relay"}} : s \in Stars}

(* the fewest hops the lanes of a transaction reported for star *)
least_reported(t, star) ==
    MinOf({t.hits[l][star] : l \in {k \in DOMAIN t.hits : star \in DOMAIN t.hits[k]}})

Found(t) == UNION {DOMAIN t.hits[l] : l \in DOMAIN t.hits}

(* C37: a star hit by a search for its key answers on the lane the search
   came by, opens no transaction for it, and reports itself alone, with as
   many hops as the search had on arrival *)
C37_SingleMatchHops ==
    \A x \in OnLanes :
        LET s == x[1][1]
            f == in_flight[x[1]][x[2]]
        IN  (f.type = "StarSearchResult" /\ f.by = "hit") =>
                /\ x[1][2] = f.hops[Len(f.hops)]
                /\ DOMAIN f.hits = {s}
                /\ f.hits[s] = Len(f.hops)
                /\ \A tid \in DOMAIN transactions[s] :
                       transactions[s][tid].requester.search.transactions # f.transactions

(* C35: a star that rebroadcast a search sends one result, on the lane the
   search came by and not before each star it broadcast to has reported once;
   the result names the stars its lanes found, each with the fewest hops
   reported for it and the hop to this star, and the star itself if it is hit *)
C35_OneResultBack ==
    \A x \in RelayTransactions :
        LET s == x[1]
            t == transactions[s][x[2]]
            search == t.requester.search
            itself == IF is_hit(s, search.pattern) THEN {s} ELSE {}
        IN  /\ Len(t.returned) <= 1
            /\ ~t.done => t.returned = <<>>
            /\ t.returned # <<>> =>
                 LET back == t.returned[1]
                 IN  /\ back.on = search.hops[Len(search.hops)]
                     /\ RangeOf(t.reported) = RangeOf(t.asked)
                     /\ Len(t.reported) = Len(t.asked)
                     /\ RangeOf(t.asked) = LaneSet(s) \ {search.hops[Len(search.hops)]}
                     /\ DOMAIN back.hits = Found(t) \cup itself
                     /\ \A star \in DOMAIN back.hits :
                            back.hits[star] = IF star \in itself THEN 1
                                              ELSE least_reported(t, star) + 1

(* on_message: a star passes on a message for another star if its kind relays *)
passes_on(s) == relay(MeshKinds[s])

(* the stars a message from s for star goes by, lane after lane: TRUE if it
   comes to star or to rest, FALSE if it comes to a star a second time *)
RECURSIVE arrives(_, _, _)
arrives(s, star, seen) ==
    IF s = star THEN TRUE
    ELSE IF s \in seen THEN FALSE
    ELSE IF seen # {} /\ ~passes_on(s) THEN TRUE
    ELSE IF lane_to(s, star) = NoLane THEN TRUE
    ELSE arrives(lane_to(s, star), star, seen \cup {s})

(* C38: following the lane each star picks for a star, a frame comes to no
   star twice *)
C38_RoutesNeverLoop == \A s, star \in Stars : arrives(s, star, {})

MeshFairness ==
    /\ \A s, from \in Stars : WF_vars(on_star_search_hop(s, from))
    /\ \A s, from \in Stars : WF_vars(process_transactions(s, from))
    /\ \A s \in Stars : WF_vars(LocalCommit(s))
    /\ \A s \in Stars : WF_vars(SearchReturnResult(s))

SpecMeshLive == SpecMesh /\ MeshFairness

(* the transactions in the table of s *)
Pending(s) == {tid \in DOMAIN transactions[s] : ~transactions[s][tid].done}

(* C36: the search transactions of a star do not stay in its table: each
   ends, with the reports it waits for or without them, and the table is
   empty again *)
C36_TransactionsEnd == \A s \in Stars : (Pending(s) # {}) ~> (Pending(s) = {})

---------------------------------------------------------------------------
(* SpecLocator: the order of provisioning *)

Provisions == {i \in DOMAIN events : events[i].ev = "Provision"}

(* C39: a Provision request for a point is sent after the record of the
   point's parent was read with a star in it, the parent's record holds that
   star, and the request goes to the Core of that star *)
C39_ParentProvisionedFirst ==
    /\ \A i \in Provisions :
          LET q == events[i].point
          IN  /\ events[i].star # NoStar
              /\ \E j \in 1..(i - 1) :
                    events[j] = ReadEv(events[i].caller, parent(q), events[i].star, "provision_inner")
              /\ record(particles, parent(q)).star = events[i].star
    /\ \A req \in requests :
          /\ record(particles, parent(req.point)).star # NoStar
          /\ req.to = Surface(record(particles, parent(req.point)).star, "Core")

(* a caller asked for a point whose parent has no star, and its request for
   the parent is on its way to the Core of the star of the parent's parent *)
C39_Witness ==
    \E c \in Callers, i \in Provisions :
        /\ callers[c].p = <<"a", "b", "c">>
        /\ events[i].caller = c
        /\ events[i].point = <<"a", "b">>
        /\ [caller |-> c, point |-> <<"a", "b">>, to |-> Surface("A", "Core")] \in requests

====
